---- MODULE Spec2Model ----
(***************************************************************************)
(* memorywheel: a single-producer single-consumer queue of variable-sized  *)
(* slices in a fixed shared-memory buffer (src/memorywheel.h), with the    *)
(* drivers of src/example.c.  Every atomic load, store, exchange and       *)
(* compare-exchange of the header is one step of the process that issues   *)
(* it; the producer and the consumer interleave freely.                    *)
(***************************************************************************)
EXTENDS Integers, Sequences, FiniteSets, TLC

(***************************************************************************)
(* Program constants.                                                      *)
(***************************************************************************)
\* UINT32_MAX, written as the all-ones word read as a signed number
WHL_INVALID_OFFSET == -1
WHL_ALIGN == 64
WHL_SLICE_UNINIT == 0
WHL_SLICE_READABLE == 1
WHL_SLICE_RETURNED == 2
\* sizeof(whl_slice_t), fixed by the static assertion
SLICE_SIZEOF == 16
\* the byte write_buf fills a payload with (memset 0xf0)
FILL_BYTE == 240
\* errno of a read or write that would block on a non-blocking eventfd
EAGAIN == 11
\* errno of send_fds_with_data for too many handles, and of a sendmsg whose
\* peer is gone
E2BIG == 7
ECONNRESET == 104
\* the most handles send_fds_with_data takes
SCM_MAX_FDS == 16

(***************************************************************************)
(* Bounds of the model.                                                    *)
(***************************************************************************)
\* the buffer handed to whl_init is WheelQuanta * WHL_ALIGN bytes
WheelQuanta == 5
\* NLOOPS of example.c, scaled down: messages the sender produces
MaxLoops == 4
\* slices the producer may hold between whl_make_slice and whl_share_slice
MaxUnshared == 2

\* the largest small buffer, in quanta, that whl_init is tried on
MaxInitQuanta == 30
\* the most handles one message carries (at most SCM_MAX_FDS)
MaxHandles == 4
\* the most handles send_fds_with_data is called with (above SCM_MAX_FDS)
MaxSent == 17

\* request sizes in bytes (one quantum and two quanta with the header)
SendSizes == {16, 100}

whl_invalid_offset_pair == [head |-> WHL_INVALID_OFFSET, last |-> WHL_INVALID_OFFSET]

VARIABLES
    aligned_size,   \* whl_spin_t.aligned_size
    head_last,      \* whl_spin_t.head_last: [head, last]
    mem,            \* the buffer, one entry per WHL_ALIGN quantum
    prod,           \* the producer: position and locals of the running call
    cons,           \* the consumer: position and locals of the running call
    unshared,       \* slices made and written, not yet shared: <<[offset, size]>>
    loops,          \* messages the sender still has to make
    tx_total,       \* the sender's *total
    rx_total,       \* the receiver's *total
    rx_log,         \* payload marks the receiver read, in order of return
    chain,          \* history: the live slices in allocation order
    pub_order,      \* history: payload marks in order of whl_share_slice
    is_readable,    \* whl_atomic_t.is_readable
    is_writable,    \* whl_atomic_t.is_writable
    readable,       \* counter of the eventfd whl_efd_t.readable
    writable,       \* counter of the eventfd whl_efd_t.writable
    errno           \* errno of each process: [prod, cons]

vars == <<aligned_size, head_last, mem, prod, cons, unshared, loops, tx_total,
          rx_total, rx_log, chain, pub_order,
          is_readable, is_writable, readable, writable, errno>>

efd_vars == <<is_readable, is_writable, readable, writable, errno>>

(***************************************************************************)
(* Pure helpers.                                                           *)
(***************************************************************************)
__whl_alignment_padding(sz) == (WHL_ALIGN - (sz % WHL_ALIGN)) % WHL_ALIGN

whl_align(size) == size + __whl_alignment_padding(size)

(***************************************************************************)
(* Unsigned machine words.  A whl_offset_t (32 bits) is kept as the signed *)
(* reading of its word.  A size_t (64 bits) is kept as three digits        *)
(* [hi, lo, r] of the number (hi * LIMB + lo) * WHL_ALIGN + r: r is the    *)
(* byte within a quantum (6 bits), lo and hi count quanta (30 and 28       *)
(* bits).                                                                  *)
(***************************************************************************)
LIMB == 2^30

HI_LIMB == 2^28

\* the size_t with the value of the natural number n
SizeT(n) == [hi |-> 0, lo |-> n \div WHL_ALIGN, r |-> n % WHL_ALIGN]

SIZE_MAX == [hi |-> HI_LIMB - 1, lo |-> LIMB - 1, r |-> WHL_ALIGN - 1]

\* a + k on size_t, for -WHL_ALIGN <= k <= WHL_ALIGN, wrapping at 2^64
SzAdd(a, k) ==
    LET t == a.r + k
        lo1 == a.lo + (t \div WHL_ALIGN)
    IN  [hi |-> (a.hi + (lo1 \div LIMB)) % HI_LIMB, lo |-> lo1 % LIMB,
         r |-> t % WHL_ALIGN]

\* a < b on size_t
SzLess(a, b) ==
    \/ a.hi < b.hi
    \/ a.hi = b.hi /\ a.lo < b.lo
    \/ a.hi = b.hi /\ a.lo = b.lo /\ a.r < b.r

\* a / WHL_ALIGN on size_t, stored into a whl_offset_t: the low 32 bits
Trunc32(a) ==
    LET h == a.hi % 4
    IN  IF h < 2 THEN h * LIMB + a.lo ELSE (h - 4) * LIMB + a.lo

\* a whl_offset_t or unsigned int converted to size_t (zero-extended)
U32ToSizeT(s) ==
    IF s >= 0 THEN SizeT(s)
    ELSE [hi |-> 0, lo |-> LIMB \div (WHL_ALIGN \div 4) + (s \div WHL_ALIGN),
          r |-> s % WHL_ALIGN]

\* a * b on unsigned int, for operands whose product of signed readings
\* stays within the word
U32Mul(a, b) == a * b

\* a <= b on whl_offset_t
ULe(a, b) == IF (a < 0) = (b < 0) THEN a <= b ELSE b < 0

\* the overflow guard of whl_make_slice: size > SIZE_MAX - sizeof(whl_slice_t)
whl_make_slice_guard(size) == SzLess(SzAdd(SIZE_MAX, 0 - SLICE_SIZEOF), size)

\* mutant: the padding is a whole quantum when the size is already aligned
aligned_size_in_wheel_pad(size) ==
    LET size_in_wheel == SzAdd(size, SLICE_SIZEOF)
        padded == SzAdd(size_in_wheel, WHL_ALIGN - (size_in_wheel.r % WHL_ALIGN))
    IN  Trunc32(padded)

\* aligned_size_in_wheel of whl_make_slice for a size_t request: header plus
\* payload plus padding in size_t arithmetic, divided by WHL_ALIGN and stored
\* into a whl_offset_t
aligned_size_in_wheel(size) ==
    LET size_in_wheel == SzAdd(size, SLICE_SIZEOF)
        padded == SzAdd(size_in_wheel, __whl_alignment_padding(size_in_wheel.r))
    IN  Trunc32(padded)

\* the same for a request of a few bytes
SizeInWheel(size) == aligned_size_in_wheel(SizeT(size))

\* a zero-filled quantum (ftruncate of the memfd)
ZeroQuantum ==
    [trailing_user_size |-> 0, aligned_size_in_wheel |-> 0,
     state |-> WHL_SLICE_UNINIT, buf |-> 0]

\* whl_init: the aligned_size it stores, or -1 when it refuses the size
\* whl_init on a size_t: what it returns and the aligned_size it stores
whl_init(buf_size) ==
    IF \/ SzLess(buf_size, SizeT(2 * WHL_ALIGN))
       \/ buf_size.r # 0
       \/ ~SzLess(buf_size, U32ToSizeT(U32Mul(WHL_ALIGN, WHL_INVALID_OFFSET)))
    THEN [ret |-> -1, aligned_size |-> 0]
    ELSE [ret |-> 0, aligned_size |-> Trunc32(SzAdd(buf_size, 0 - WHL_ALIGN))]

whl_init_size(buf_size) ==
    IF whl_init(SizeT(buf_size)).ret # 0 THEN -1
    ELSE whl_init(SizeT(buf_size)).aligned_size

\* mutant: an empty wheel takes only a size smaller than the wheel
__whl_next_offset_aligned_less(size, pair) ==
    IF pair = whl_invalid_offset_pair
    THEN IF ULe(size, aligned_size) /\ size # aligned_size
         THEN 0 ELSE WHL_INVALID_OFFSET
    ELSE LET head == pair.head
             last == pair.last
             last_end == last + mem[last].aligned_size_in_wheel
         IN  IF last < head
             THEN IF ULe(size, head - last_end) THEN last_end ELSE WHL_INVALID_OFFSET
             ELSE IF ULe(size, aligned_size - last_end) THEN last_end
                  ELSE IF ULe(size, head) THEN 0
                  ELSE WHL_INVALID_OFFSET

\* mutant: the suffix must be larger than the size, not just as large
__whl_next_offset_aligned_strict(size, pair) ==
    IF pair = whl_invalid_offset_pair
    THEN IF ULe(size, aligned_size) THEN 0 ELSE WHL_INVALID_OFFSET
    ELSE LET head == pair.head
             last == pair.last
             last_end == last + mem[last].aligned_size_in_wheel
         IN  IF last < head
             THEN IF ULe(size, head - last_end) THEN last_end ELSE WHL_INVALID_OFFSET
             ELSE IF ULe(size + 1, aligned_size - last_end) THEN last_end
                  ELSE IF ULe(size, head) THEN 0
                  ELSE WHL_INVALID_OFFSET

\* mutant: wraps to offset 0 without comparing the size with head
__whl_next_offset_aligned_nohead(size, pair) ==
    IF pair = whl_invalid_offset_pair
    THEN IF ULe(size, aligned_size) THEN 0 ELSE WHL_INVALID_OFFSET
    ELSE LET head == pair.head
             last == pair.last
             last_end == last + mem[last].aligned_size_in_wheel
         IN  IF last < head
             THEN IF ULe(size, head - last_end) THEN last_end ELSE WHL_INVALID_OFFSET
             ELSE IF ULe(size, aligned_size - last_end) THEN last_end
                  ELSE IF ULe(size, aligned_size) THEN 0
                  ELSE WHL_INVALID_OFFSET

__whl_next_offset_aligned(size, pair) ==
    IF pair = whl_invalid_offset_pair
    THEN IF ULe(size, aligned_size) THEN 0 ELSE WHL_INVALID_OFFSET
    ELSE LET head == pair.head
             last == pair.last
             last_end == last + mem[last].aligned_size_in_wheel
         IN  IF last < head
             THEN IF ULe(size, head - last_end) THEN last_end ELSE WHL_INVALID_OFFSET
             ELSE IF ULe(size, aligned_size - last_end) THEN last_end
                  ELSE IF ULe(size, head) THEN 0
                  ELSE WHL_INVALID_OFFSET

\* mutant: the header is written field by field and the state is left as it
\* was found
NewSlice_keep(q, size, units) ==
    [q EXCEPT !.trailing_user_size = size,
              !.aligned_size_in_wheel = units]

\* the slice header whl_make_slice writes (state is zero-initialised)
NewSlice(q, size, units) ==
    [q EXCEPT !.trailing_user_size = size,
              !.aligned_size_in_wheel = units,
              !.state = WHL_SLICE_UNINIT]

\* next_head of whl_return_slice
NextHead(head, units) == (head + units) % aligned_size

(***************************************************************************)
(* The eventfd counters (EFD_SEMAPHORE | EFD_NONBLOCK).  A counter is an   *)
(* unsigned 64-bit number; the model keeps it as the signed reading of the *)
(* same word, so that 0xfffffffffffffffe, the largest count, is -2.  The   *)
(* counts that occur are within a few units of zero or of that maximum.    *)
(***************************************************************************)
\* write(efd, v): adds v unless the count would pass the maximum (EAGAIN)
EfdWriteOk(count, v) ==
    IF count >= 0 /\ v >= 0 THEN TRUE
    ELSE IF count < 0 /\ v < 0 THEN FALSE
    ELSE count + v < -1

__whl_efd_write(count, v) == IF EfdWriteOk(count, v) THEN count + v ELSE count

\* read(efd): takes one unit unless the count is zero (EAGAIN)
EfdReadOk(count) == count # 0

__whl_efd_read(count) == IF EfdReadOk(count) THEN count - 1 ELSE count

\* errno after the write or read: set when the syscall fails, else left alone
ErrnoAfter(ok, e) == IF ok THEN e ELSE EAGAIN

\* poll: readable while the count is not zero, writable while a write of 1
\* would not block
EfdPollIn(count) == count # 0

EfdPollOut(count) == count >= 0 \/ count < -2

\* whl_efd_init: eventfd(is_readable), and eventfd(0) followed by a write of
\* ~0 - 1 - is_writable
whl_efd_init_readable(is_r) == is_r

whl_efd_init_writable(is_w) == __whl_efd_write(0, (-1) - 1 - is_w)

(***************************************************************************)
(* Initial state: whl_init on a zero-filled buffer, both processes idle.   *)
(***************************************************************************)
IdleProd ==
    [pc |-> "idle", size |-> 0, units |-> 0, pair |-> whl_invalid_offset_pair,
     offset |-> WHL_INVALID_OFFSET, ret |-> WHL_INVALID_OFFSET, id |-> 0,
     mark |-> 0, bufp |-> <<>>]

IdleCons ==
    [pc |-> "idle", offset |-> WHL_INVALID_OFFSET, pair |-> whl_invalid_offset_pair,
     o |-> WHL_INVALID_OFFSET, next_head |-> 0, returns |-> 0,
     ret |-> WHL_INVALID_OFFSET, held |-> <<>>, again |-> FALSE, base |-> 0]

Init ==
    /\ aligned_size = whl_init_size(WheelQuanta * WHL_ALIGN)
    /\ head_last = whl_invalid_offset_pair
    /\ mem = [q \in 0 .. (aligned_size - 1) |-> ZeroQuantum]
    /\ prod = IdleProd
    /\ cons = IdleCons
    /\ unshared = <<>>
    /\ loops = MaxLoops
    /\ tx_total = 0
    /\ rx_total = 0
    /\ rx_log = <<>>
    /\ chain = <<>>
    /\ pub_order = <<>>
    /\ is_readable = 0
    /\ is_writable = 1
    /\ readable = whl_efd_init_readable(is_readable)
    /\ writable = whl_efd_init_writable(is_writable)
    /\ errno = [prod |-> 0, cons |-> 0]

(***************************************************************************)
(* History bookkeeping (not program state).                                *)
(***************************************************************************)
\* the live slice at offset off, as a set of chain entries
ChainAt(off) == {i \in 1 .. Len(chain) : chain[i].off = off}

MarkChain(off, field) ==
    [i \in 1 .. Len(chain) |->
        IF chain[i].off = off THEN [chain[i] EXCEPT ![field] = TRUE] ELSE chain[i]]

\* slices whl_make_slice has handed out so far
Allocated ==
    (MaxLoops - loops) + (IF prod.pc \in {"mk_ret", "emk_ret"}
                             /\ prod.ret # WHL_INVALID_OFFSET
                          THEN 1 ELSE 0)

\* slices head has moved past so far
Reclaimed == Allocated - Len(chain)

(***************************************************************************)
(* whl_make_slice, one action per shared-memory access.                    *)
(***************************************************************************)
\* mutant: *bufp is assigned before the offset is looked at
whl_make_slice_load_bufp ==
    /\ prod.pc = "mk_load"
    /\ LET pair == head_last
           offset == __whl_next_offset_aligned(prod.units, pair)
       IN  prod' = IF offset = WHL_INVALID_OFFSET
                   THEN [prod EXCEPT !.pc = "mk_ret", !.ret = WHL_INVALID_OFFSET,
                                     !.mark = Reclaimed, !.bufp = <<offset>>]
                   ELSE [prod EXCEPT !.pair = pair, !.offset = offset,
                                     !.id = MaxLoops - loops + 1,
                                     !.pc = IF offset = 0 /\ pair.last # WHL_INVALID_OFFSET
                                            THEN "mk_backfill" ELSE "mk_init"]
    /\ UNCHANGED <<aligned_size, head_last, mem, cons, unshared, loops, tx_total,
                   rx_total, rx_log, chain, pub_order, efd_vars>>

\* load head_last and choose the offset from that snapshot
whl_make_slice_load ==
    /\ prod.pc = "mk_load"
    /\ LET pair == head_last
           offset == __whl_next_offset_aligned(prod.units, pair)
       IN  prod' = IF offset = WHL_INVALID_OFFSET
                   THEN [prod EXCEPT !.pc = "mk_ret", !.ret = WHL_INVALID_OFFSET,
                                     !.mark = Reclaimed]
                   ELSE [prod EXCEPT !.pair = pair, !.offset = offset,
                                     !.id = MaxLoops - loops + 1,
                                     !.pc = IF offset = 0 /\ pair.last # WHL_INVALID_OFFSET
                                            THEN "mk_backfill" ELSE "mk_init"]
    /\ UNCHANGED <<aligned_size, head_last, mem, cons, unshared, loops, tx_total,
                   rx_total, rx_log, chain, pub_order, efd_vars>>

\* mutant: the back-fill stops one quantum before the end of the wheel
BackfillUnits_short(old_last) == aligned_size - old_last - 1

\* mutant: the back-fill leaves the units as they are
BackfillUnits_none(old_last) == mem[old_last].aligned_size_in_wheel

\* the units the back-fill stores into the old last slice
BackfillUnits(old_last) == aligned_size - old_last

\* back-fill: grow the old last slice up to the end of the wheel
whl_make_slice_backfill ==
    /\ prod.pc = "mk_backfill"
    /\ mem' = [mem EXCEPT ![prod.pair.last].aligned_size_in_wheel =
                              BackfillUnits(prod.pair.last)]
    /\ prod' = [prod EXCEPT !.pc = "mk_init"]
    /\ UNCHANGED <<aligned_size, head_last, cons, unshared, loops, tx_total,
                   rx_total, rx_log, chain, pub_order, efd_vars>>

\* write the slice header at the chosen offset and hand out the buffer
whl_make_slice_init ==
    /\ prod.pc = "mk_init"
    /\ mem' = [mem EXCEPT ![prod.offset] = NewSlice(@, prod.size, prod.units)]
    /\ prod' = [prod EXCEPT !.pc = "mk_publish", !.bufp = <<prod.offset>>]
    /\ UNCHANGED <<aligned_size, head_last, cons, unshared, loops, tx_total,
                   rx_total, rx_log, chain, pub_order, efd_vars>>

NewChainEntry ==
    [id |-> prod.id, off |-> prod.offset, need |-> prod.units, size |-> prod.size,
     shared |-> FALSE, returned |-> FALSE]

\* mutant: the compare-exchange looks at last only and stores the head of the
\* snapshot
whl_make_slice_publish_stale ==
    /\ prod.pc = "mk_publish"
    /\ IF prod.pair = whl_invalid_offset_pair
       THEN /\ head_last' = [head |-> prod.offset, last |-> prod.offset]
            /\ chain' = Append(chain, NewChainEntry)
            /\ prod' = [prod EXCEPT !.pc = "mk_ret", !.ret = prod.offset]
       ELSE IF head_last.last = prod.pair.last
            THEN /\ head_last' = [head |-> prod.pair.head, last |-> prod.offset]
                 /\ chain' = Append(chain, NewChainEntry)
                 /\ prod' = [prod EXCEPT !.pc = "mk_ret", !.ret = prod.offset]
            ELSE /\ prod' = [prod EXCEPT !.pair = head_last, !.pc = "mk_reload"]
                 /\ UNCHANGED <<head_last, chain>>
    /\ UNCHANGED <<aligned_size, mem, cons, unshared, loops, tx_total,
                   rx_total, rx_log, pub_order, efd_vars>>

\* mutant: a failed compare-exchange is tried again with the same snapshot
whl_make_slice_publish_again ==
    /\ prod.pc = "mk_publish"
    /\ IF prod.pair = whl_invalid_offset_pair
       THEN /\ head_last' = [head |-> prod.offset, last |-> prod.offset]
            /\ chain' = Append(chain, NewChainEntry)
            /\ prod' = [prod EXCEPT !.pc = "mk_ret", !.ret = prod.offset]
       ELSE IF head_last = prod.pair
            THEN /\ head_last' = [head |-> prod.pair.head, last |-> prod.offset]
                 /\ chain' = Append(chain, NewChainEntry)
                 /\ prod' = [prod EXCEPT !.pc = "mk_ret", !.ret = prod.offset]
            ELSE UNCHANGED <<prod, head_last, chain>>
    /\ UNCHANGED <<aligned_size, mem, cons, unshared, loops, tx_total,
                   rx_total, rx_log, pub_order, efd_vars>>

\* mutant: stores last without comparing the pair with the snapshot
whl_make_slice_publish_blind ==
    /\ prod.pc = "mk_publish"
    /\ head_last' = IF prod.pair = whl_invalid_offset_pair
                    THEN [head |-> prod.offset, last |-> prod.offset]
                    ELSE [head_last EXCEPT !.last = prod.offset]
    /\ chain' = Append(chain, NewChainEntry)
    /\ prod' = [prod EXCEPT !.pc = "mk_ret", !.ret = prod.offset]
    /\ UNCHANGED <<aligned_size, mem, cons, unshared, loops, tx_total,
                   rx_total, rx_log, pub_order, efd_vars>>

\* the pair update: a plain store when the snapshot was invalid, else a
\* compare-exchange that keeps head and replaces last
whl_make_slice_publish ==
    /\ prod.pc = "mk_publish"
    /\ IF prod.pair = whl_invalid_offset_pair
       THEN /\ head_last' = [head |-> prod.offset, last |-> prod.offset]
            /\ chain' = Append(chain, NewChainEntry)
            /\ prod' = [prod EXCEPT !.pc = "mk_ret", !.ret = prod.offset]
       ELSE IF head_last = prod.pair
            THEN /\ head_last' = [head |-> prod.pair.head, last |-> prod.offset]
                 /\ chain' = Append(chain, NewChainEntry)
                 /\ prod' = [prod EXCEPT !.pc = "mk_ret", !.ret = prod.offset]
            ELSE /\ prod' = [prod EXCEPT !.pair = head_last, !.pc = "mk_reload"]
                 /\ UNCHANGED <<head_last, chain>>
    /\ UNCHANGED <<aligned_size, mem, cons, unshared, loops, tx_total,
                   rx_total, rx_log, pub_order, efd_vars>>

\* after a failed compare-exchange: load the pair again
whl_make_slice_reload ==
    /\ prod.pc = "mk_reload"
    /\ prod' = [prod EXCEPT !.pair = head_last, !.pc = "mk_publish"]
    /\ UNCHANGED <<aligned_size, head_last, mem, cons, unshared, loops, tx_total,
                   rx_total, rx_log, chain, pub_order, efd_vars>>

\* whl_share_slice: one atomic store of the state
whl_share_slice(offset) ==
    /\ mem' = [mem EXCEPT ![offset].state = WHL_SLICE_READABLE]
    /\ chain' = MarkChain(offset, "shared")

(***************************************************************************)
(* The producer's driver (run_spin_sender), generalised to hold up to      *)
(* MaxUnshared slices between make and share and to share them in any      *)
(* order.                                                                  *)
(***************************************************************************)
\* pick the next bufsize and call whl_make_slice
run_spin_sender_make ==
    /\ prod.pc = "idle"
    /\ loops > 0
    /\ Len(unshared) < MaxUnshared
    /\ \E bufsize \in SendSizes :
          prod' = [IdleProd EXCEPT !.pc = "mk_load", !.size = bufsize,
                                   !.units = SizeInWheel(bufsize)]
    /\ UNCHANGED <<aligned_size, head_last, mem, cons, unshared, loops, tx_total,
                   rx_total, rx_log, chain, pub_order, efd_vars>>

\* whl_make_slice returned WHL_INVALID_OFFSET: spin
run_spin_sender_spin ==
    /\ prod.pc = "mk_ret"
    /\ prod.ret = WHL_INVALID_OFFSET
    /\ prod' = IdleProd
    /\ UNCHANGED <<aligned_size, head_last, mem, cons, unshared, loops, tx_total,
                   rx_total, rx_log, chain, pub_order, efd_vars>>

\* the quanta the bufsize payload bytes after a header at offset reach
PayloadQuanta(offset, bufsize) ==
    offset .. (offset + SizeInWheel(bufsize) - 1)

\* write_buf: the payload bytes follow the 16-byte header; a quantum after the
\* first is filled from its first byte, which is where a header would sit
write_buf(m, offset, bufsize, mark) ==
    [q \in DOMAIN m |->
        IF q \notin PayloadQuanta(offset, bufsize) THEN m[q]
        ELSE IF q = offset THEN [m[q] EXCEPT !.buf = mark]
        ELSE [trailing_user_size |-> FILL_BYTE, aligned_size_in_wheel |-> FILL_BYTE,
              state |-> FILL_BYTE, buf |-> mark]]

\* whl_make_slice returned an offset: fill the buffer
run_spin_sender_write ==
    /\ prod.pc = "mk_ret"
    /\ prod.ret # WHL_INVALID_OFFSET
    /\ mem' = write_buf(mem, prod.ret, prod.size, prod.id)
    /\ unshared' = Append(unshared, [offset |-> prod.ret, size |-> prod.size])
    /\ loops' = loops - 1
    /\ prod' = IdleProd
    /\ UNCHANGED <<aligned_size, head_last, cons, tx_total,
                   rx_total, rx_log, chain, pub_order, efd_vars>>

RemoveAt(s, i) == [j \in 1 .. (Len(s) - 1) |-> IF j < i THEN s[j] ELSE s[j + 1]]

\* share one of the slices held, and count its bytes
run_spin_sender_share ==
    /\ prod.pc = "idle"
    /\ \E i \in 1 .. Len(unshared) :
          /\ whl_share_slice(unshared[i].offset)
          /\ pub_order' = Append(pub_order, mem[unshared[i].offset].buf)
          /\ tx_total' = tx_total + unshared[i].size
          /\ unshared' = RemoveAt(unshared, i)
    /\ UNCHANGED <<aligned_size, head_last, prod, cons, loops,
                   rx_total, rx_log, efd_vars>>

(***************************************************************************)
(* whl_next_shared_slice.                                                  *)
(***************************************************************************)
\* mutant: looks at last instead of head
whl_next_shared_slice_load_last ==
    /\ cons.pc = "nx_load"
    /\ cons' = IF head_last.last = WHL_INVALID_OFFSET
               THEN [cons EXCEPT !.pc = "nx_ret", !.ret = WHL_INVALID_OFFSET]
               ELSE [cons EXCEPT !.pc = "nx_state", !.offset = head_last.last]
    /\ UNCHANGED <<aligned_size, head_last, mem, prod, unshared, loops, tx_total,
                   rx_total, rx_log, chain, pub_order, efd_vars>>

\* load head
whl_next_shared_slice_load ==
    /\ cons.pc = "nx_load"
    /\ cons' = IF head_last.head = WHL_INVALID_OFFSET
               THEN [cons EXCEPT !.pc = "nx_ret", !.ret = WHL_INVALID_OFFSET]
               ELSE [cons EXCEPT !.pc = "nx_state", !.offset = head_last.head]
    /\ UNCHANGED <<aligned_size, head_last, mem, prod, unshared, loops, tx_total,
                   rx_total, rx_log, chain, pub_order, efd_vars>>

\* what a successful call hands out: the offset, *size, and *bufp (the
\* payload address is fixed by the offset; mark is what is stored there)
Peeked(offset) ==
    [offset |-> offset, size |-> mem[offset].trailing_user_size,
     mark |-> mem[offset].buf]

\* mutant: handing a slice out also marks it RETURNED
whl_next_shared_slice_state_take ==
    /\ cons.pc = "nx_state"
    /\ IF mem[cons.offset].state # WHL_SLICE_READABLE
       THEN /\ cons' = [cons EXCEPT !.pc = "nx_ret", !.ret = WHL_INVALID_OFFSET]
            /\ mem' = mem
       ELSE /\ cons' = [cons EXCEPT !.pc = "nx_ret", !.ret = cons.offset,
                                    !.held = Peeked(cons.offset)]
            /\ mem' = [mem EXCEPT ![cons.offset].state = WHL_SLICE_RETURNED]
    /\ UNCHANGED <<aligned_size, head_last, prod, unshared, loops, tx_total,
                   rx_total, rx_log, chain, pub_order, efd_vars>>

\* load the state of the slice at head; hand it out when READABLE
whl_next_shared_slice_state ==
    /\ cons.pc = "nx_state"
    /\ cons' = IF mem[cons.offset].state # WHL_SLICE_READABLE
               THEN [cons EXCEPT !.pc = "nx_ret", !.ret = WHL_INVALID_OFFSET]
               ELSE [cons EXCEPT !.pc = "nx_ret", !.ret = cons.offset,
                                 !.held = Peeked(cons.offset)]
    /\ UNCHANGED <<aligned_size, head_last, mem, prod, unshared, loops, tx_total,
                   rx_total, rx_log, chain, pub_order, efd_vars>>

(***************************************************************************)
(* whl_return_slice.                                                       *)
(***************************************************************************)
\* exchange the state to RETURNED; a slice already RETURNED ends the call
whl_return_slice_xchg ==
    /\ cons.pc = "rt_xchg"
    /\ mem' = [mem EXCEPT ![cons.offset].state = WHL_SLICE_RETURNED]
    /\ chain' = MarkChain(cons.offset, "returned")
    /\ cons' = IF mem[cons.offset].state = WHL_SLICE_RETURNED
               THEN [cons EXCEPT !.pc = "rt_ret", !.ret = 0]
               ELSE [cons EXCEPT !.pc = "rt_load", !.returns = 0]
    /\ UNCHANGED <<aligned_size, head_last, prod, unshared, loops, tx_total,
                   rx_total, rx_log, pub_order, efd_vars>>

\* loop condition, first half: load head_last
whl_return_slice_load ==
    /\ cons.pc = "rt_load"
    /\ cons' = IF head_last.head = WHL_INVALID_OFFSET
               THEN [cons EXCEPT !.pc = "rt_ret", !.ret = cons.returns,
                                 !.pair = whl_invalid_offset_pair]
               ELSE [cons EXCEPT !.pc = "rt_head", !.pair = head_last]
    /\ UNCHANGED <<aligned_size, head_last, mem, prod, unshared, loops, tx_total,
                   rx_total, rx_log, chain, pub_order, efd_vars>>

\* loop condition, second half: __whl_head loads head again
whl_return_slice_head ==
    /\ cons.pc = "rt_head"
    /\ cons' = [cons EXCEPT !.pc = "rt_state", !.o = head_last.head]
    /\ UNCHANGED <<aligned_size, head_last, mem, prod, unshared, loops, tx_total,
                   rx_total, rx_log, chain, pub_order, efd_vars>>

\* mutant: the loop goes on past every slice that is not UNINIT
whl_return_slice_state_eager ==
    /\ cons.pc = "rt_state"
    /\ cons' = IF mem[cons.o].state = WHL_SLICE_UNINIT
               THEN [cons EXCEPT !.pc = "rt_ret", !.ret = cons.returns]
               ELSE IF cons.pair.head = cons.pair.last
               THEN [cons EXCEPT !.pc = "rt_cas"]
               ELSE [cons EXCEPT !.pc = "rt_units"]
    /\ UNCHANGED <<aligned_size, head_last, mem, prod, unshared, loops, tx_total,
                   rx_total, rx_log, chain, pub_order, efd_vars>>

\* loop condition, last part: load the state of that slice
whl_return_slice_state ==
    /\ cons.pc = "rt_state"
    /\ cons' = IF mem[cons.o].state # WHL_SLICE_RETURNED
               THEN [cons EXCEPT !.pc = "rt_ret", !.ret = cons.returns]
               ELSE IF cons.pair.head = cons.pair.last
               THEN [cons EXCEPT !.pc = "rt_cas"]
               ELSE [cons EXCEPT !.pc = "rt_units"]
    /\ UNCHANGED <<aligned_size, head_last, mem, prod, unshared, loops, tx_total,
                   rx_total, rx_log, chain, pub_order, efd_vars>>

\* mutant: the last slice is released by invalidating head alone
whl_return_slice_cas_headonly ==
    /\ cons.pc = "rt_cas"
    /\ IF head_last = cons.pair
       THEN /\ head_last' = [head_last EXCEPT !.head = WHL_INVALID_OFFSET]
            /\ chain' = Tail(chain)
            /\ cons' = [cons EXCEPT !.pc = "rt_load", !.returns = @ + 1]
       ELSE /\ cons' = [cons EXCEPT !.pc = "rt_units", !.pair = head_last]
            /\ UNCHANGED <<head_last, chain>>
    /\ UNCHANGED <<aligned_size, mem, prod, unshared, loops, tx_total,
                   rx_total, rx_log, pub_order, efd_vars>>

\* head == last: compare-exchange the pair to the invalid pair
whl_return_slice_cas ==
    /\ cons.pc = "rt_cas"
    /\ IF head_last = cons.pair
       THEN /\ head_last' = whl_invalid_offset_pair
            /\ chain' = Tail(chain)
            /\ cons' = [cons EXCEPT !.pc = "rt_load", !.returns = @ + 1]
       ELSE /\ cons' = [cons EXCEPT !.pc = "rt_units", !.pair = head_last]
            /\ UNCHANGED <<head_last, chain>>
    /\ UNCHANGED <<aligned_size, mem, prod, unshared, loops, tx_total,
                   rx_total, rx_log, pub_order, efd_vars>>

\* load the units of the head slice and compute next_head
whl_return_slice_units ==
    /\ cons.pc = "rt_units"
    /\ cons' = [cons EXCEPT !.pc = "rt_store",
                   !.next_head = NextHead(cons.pair.head,
                                          mem[cons.pair.head].aligned_size_in_wheel)]
    /\ UNCHANGED <<aligned_size, head_last, mem, prod, unshared, loops, tx_total,
                   rx_total, rx_log, chain, pub_order, efd_vars>>

\* store head
whl_return_slice_store ==
    /\ cons.pc = "rt_store"
    /\ head_last' = [head_last EXCEPT !.head = cons.next_head]
    /\ chain' = Tail(chain)
    /\ cons' = [cons EXCEPT !.pc = "rt_load", !.returns = @ + 1]
    /\ UNCHANGED <<aligned_size, mem, prod, unshared, loops, tx_total,
                   rx_total, rx_log, pub_order, efd_vars>>

(***************************************************************************)
(* The consumer's driver (run_spin_receiver); it may look at the next      *)
(* slice again before it returns the one it holds.                         *)
(***************************************************************************)
\* call whl_next_shared_slice
run_spin_receiver_next ==
    /\ cons.pc \in {"idle", "got"}
    /\ cons' = [cons EXCEPT !.pc = "nx_load", !.again = (cons.pc = "got")]
    /\ UNCHANGED <<aligned_size, head_last, mem, prod, unshared, loops, tx_total,
                   rx_total, rx_log, chain, pub_order, efd_vars>>

\* whl_next_shared_slice returned: spin on WHL_INVALID_OFFSET
run_spin_receiver_got ==
    /\ cons.pc = "nx_ret"
    /\ cons' = [cons EXCEPT !.pc = IF cons.held = <<>> THEN "idle" ELSE "got",
                            !.offset = WHL_INVALID_OFFSET]
    /\ UNCHANGED <<aligned_size, head_last, mem, prod, unshared, loops, tx_total,
                   rx_total, rx_log, chain, pub_order, efd_vars>>

\* call whl_return_slice on the offset held
run_spin_receiver_return ==
    /\ cons.pc = "got"
    /\ cons' = [cons EXCEPT !.pc = "rt_xchg", !.offset = cons.held.offset,
                            !.base = Reclaimed]
    /\ UNCHANGED <<aligned_size, head_last, mem, prod, unshared, loops, tx_total,
                   rx_total, rx_log, chain, pub_order, efd_vars>>

\* whl_return_slice returned: count the bytes
run_spin_receiver_count ==
    /\ cons.pc = "rt_ret"
    /\ rx_total' = rx_total + cons.held.size
    /\ rx_log' = Append(rx_log, cons.held.mark)
    /\ cons' = IdleCons
    /\ UNCHANGED <<aligned_size, head_last, mem, prod, unshared, loops, tx_total,
                   chain, pub_order, efd_vars>>

(***************************************************************************)
(* The spin variant: one producer and one consumer.                        *)
(***************************************************************************)
Producer ==
    \/ run_spin_sender_make
    \/ whl_make_slice_load
    \/ whl_make_slice_backfill
    \/ whl_make_slice_init
    \/ whl_make_slice_publish
    \/ whl_make_slice_reload
    \/ run_spin_sender_spin
    \/ run_spin_sender_write
    \/ run_spin_sender_share

Consumer ==
    \/ run_spin_receiver_next
    \/ whl_next_shared_slice_load
    \/ whl_next_shared_slice_state
    \/ run_spin_receiver_got
    \/ run_spin_receiver_return
    \/ whl_return_slice_xchg
    \/ whl_return_slice_load
    \/ whl_return_slice_head
    \/ whl_return_slice_state
    \/ whl_return_slice_cas
    \/ whl_return_slice_units
    \/ whl_return_slice_store
    \/ run_spin_receiver_count

Next == Producer \/ Consumer

Spec == Init /\ [][Next]_vars

(***************************************************************************)
(* Returns in any order: the consumer is passed the offsets of shared      *)
(* slices by other means than whl_next_shared_slice and returns them in an *)
(* order of its own, possibly twice while the slice is still in the wheel. *)
(***************************************************************************)
any_order_return ==
    /\ cons.pc = "idle"
    /\ \E i \in 1 .. Len(chain) :
          /\ chain[i].shared
          /\ cons' = [cons EXCEPT !.pc = "rt_xchg", !.offset = chain[i].off,
                                  !.base = Reclaimed]
    /\ UNCHANGED <<aligned_size, head_last, mem, prod, unshared, loops, tx_total,
                   rx_total, rx_log, chain, pub_order, efd_vars>>

any_order_done ==
    /\ cons.pc = "rt_ret"
    /\ cons' = IdleCons
    /\ UNCHANGED <<aligned_size, head_last, mem, prod, unshared, loops, tx_total,
                   rx_total, rx_log, chain, pub_order, efd_vars>>

AnyOrderConsumer ==
    \/ any_order_return
    \/ whl_return_slice_xchg
    \/ whl_return_slice_load
    \/ whl_return_slice_head
    \/ whl_return_slice_state
    \/ whl_return_slice_cas
    \/ whl_return_slice_units
    \/ whl_return_slice_store
    \/ any_order_done

NextAnyOrder == Producer \/ AnyOrderConsumer

SpecAnyOrder == Init /\ [][NextAnyOrder]_vars

(***************************************************************************)
(* The eventfd variant: whl_efd_make_slice, whl_efd_share_slice,           *)
(* whl_efd_next_shared_slice and whl_efd_return_slice run the spin         *)
(* operation and then their hook, one action per exchange and per eventfd  *)
(* read or write.                                                          *)
(***************************************************************************)
spin_vars == <<aligned_size, head_last, mem, chain>>

\* mutant: the write follows every failed call, whatever the flag was
whl_efd_make_slice_xchg_always ==
    /\ prod.pc = "mk_ret"
    /\ IF prod.ret = WHL_INVALID_OFFSET
       THEN /\ is_writable' = 0
            /\ prod' = [prod EXCEPT !.pc = "emk_write"]
       ELSE /\ is_writable' = is_writable
            /\ prod' = [prod EXCEPT !.pc = "emk_ret"]
    /\ errno' = [errno EXCEPT !.prod = 0]
    /\ UNCHANGED <<spin_vars, cons, unshared, loops, tx_total, rx_total, rx_log,
                   pub_order, is_readable, readable, writable>>

\* after whl_make_slice: exchange is_writable to 0 when it failed
whl_efd_make_slice_xchg ==
    /\ prod.pc = "mk_ret"
    /\ IF prod.ret = WHL_INVALID_OFFSET
       THEN /\ is_writable' = 0
            /\ prod' = [prod EXCEPT !.pc = IF is_writable = 1 THEN "emk_write"
                                           ELSE "emk_ret"]
       ELSE /\ is_writable' = is_writable
            /\ prod' = [prod EXCEPT !.pc = "emk_ret"]
    /\ errno' = [errno EXCEPT !.prod = 0]
    /\ UNCHANGED <<spin_vars, cons, unshared, loops, tx_total, rx_total, rx_log,
                   pub_order, is_readable, readable, writable>>

\* the flag went 1 to 0: write 1 to the writable eventfd
whl_efd_make_slice_write ==
    /\ prod.pc = "emk_write"
    /\ writable' = __whl_efd_write(writable, 1)
    /\ prod' = [prod EXCEPT !.pc = "emk_ret"]
    /\ errno' = [errno EXCEPT !.prod = ErrnoAfter(EfdWriteOk(writable, 1), @)]
    /\ UNCHANGED <<spin_vars, cons, unshared, loops, tx_total, rx_total, rx_log,
                   pub_order, is_readable, is_writable, readable>>

\* whl_efd_share_slice: first the spin whl_share_slice
whl_efd_share_slice_store ==
    /\ prod.pc = "esh_store"
    /\ whl_share_slice(prod.ret)
    /\ pub_order' = Append(pub_order, mem[prod.ret].buf)
    /\ prod' = [prod EXCEPT !.pc = "esh_xchg"]
    /\ UNCHANGED <<aligned_size, head_last, cons, unshared, loops, tx_total,
                   rx_total, rx_log, efd_vars>>

\* then exchange is_readable to 1
whl_efd_share_slice_xchg ==
    /\ prod.pc = "esh_xchg"
    /\ is_readable' = 1
    /\ prod' = [prod EXCEPT !.pc = IF is_readable = 0 THEN "esh_write" ELSE "esh_ret"]
    /\ errno' = [errno EXCEPT !.prod = 0]
    /\ UNCHANGED <<spin_vars, cons, unshared, loops, tx_total, rx_total, rx_log,
                   pub_order, is_writable, readable, writable>>

\* the flag went 0 to 1: write 1 to the readable eventfd
whl_efd_share_slice_write ==
    /\ prod.pc = "esh_write"
    /\ readable' = __whl_efd_write(readable, 1)
    /\ prod' = [prod EXCEPT !.pc = "esh_ret"]
    /\ errno' = [errno EXCEPT !.prod = ErrnoAfter(EfdWriteOk(readable, 1), @)]
    /\ UNCHANGED <<spin_vars, cons, unshared, loops, tx_total, rx_total, rx_log,
                   pub_order, is_readable, is_writable, writable>>

\* mutant: errno is not cleared before the hook
whl_efd_next_shared_slice_xchg_keep ==
    /\ cons.pc = "nx_ret"
    /\ IF cons.ret = WHL_INVALID_OFFSET
       THEN /\ is_readable' = 0
            /\ cons' = [cons EXCEPT !.pc = IF is_readable = 1 THEN "enx_read"
                                           ELSE "enx_ret"]
       ELSE /\ is_readable' = is_readable
            /\ cons' = [cons EXCEPT !.pc = "enx_ret"]
    /\ UNCHANGED <<spin_vars, prod, unshared, loops, tx_total, rx_total, rx_log,
                   pub_order, is_writable, readable, writable, errno>>

\* after whl_next_shared_slice: exchange is_readable to 0 when it failed
whl_efd_next_shared_slice_xchg ==
    /\ cons.pc = "nx_ret"
    /\ IF cons.ret = WHL_INVALID_OFFSET
       THEN /\ is_readable' = 0
            /\ cons' = [cons EXCEPT !.pc = IF is_readable = 1 THEN "enx_read"
                                           ELSE "enx_ret"]
       ELSE /\ is_readable' = is_readable
            /\ cons' = [cons EXCEPT !.pc = "enx_ret"]
    /\ errno' = [errno EXCEPT !.cons = 0]
    /\ UNCHANGED <<spin_vars, prod, unshared, loops, tx_total, rx_total, rx_log,
                   pub_order, is_writable, readable, writable>>

\* the flag went 1 to 0: read the readable eventfd
whl_efd_next_shared_slice_read ==
    /\ cons.pc = "enx_read"
    /\ readable' = __whl_efd_read(readable)
    /\ cons' = [cons EXCEPT !.pc = "enx_ret"]
    /\ errno' = [errno EXCEPT !.cons = ErrnoAfter(EfdReadOk(readable), @)]
    /\ UNCHANGED <<spin_vars, prod, unshared, loops, tx_total, rx_total, rx_log,
                   pub_order, is_readable, is_writable, writable>>

\* after whl_return_slice: exchange is_writable to 1
whl_efd_return_slice_xchg ==
    /\ cons.pc = "rt_ret"
    /\ is_writable' = 1
    /\ cons' = [cons EXCEPT !.pc = IF is_writable = 0 THEN "ert_read" ELSE "ert_ret"]
    /\ errno' = [errno EXCEPT !.cons = 0]
    /\ UNCHANGED <<spin_vars, prod, unshared, loops, tx_total, rx_total, rx_log,
                   pub_order, is_readable, readable, writable>>

\* the flag went 0 to 1: read the writable eventfd
whl_efd_return_slice_read ==
    /\ cons.pc = "ert_read"
    /\ writable' = __whl_efd_read(writable)
    /\ cons' = [cons EXCEPT !.pc = "ert_ret"]
    /\ errno' = [errno EXCEPT !.cons = ErrnoAfter(EfdReadOk(writable), @)]
    /\ UNCHANGED <<spin_vars, prod, unshared, loops, tx_total, rx_total, rx_log,
                   pub_order, is_readable, is_writable, readable>>

(***************************************************************************)
(* The event-loop drivers: do_uv_send runs while the writable eventfd      *)
(* polls writable, do_uv_read while the readable eventfd polls readable.   *)
(***************************************************************************)
\* do_uv_send: the bufsize of a failed attempt is drawn again (the rng state
\* only advances on success); call whl_efd_make_slice
do_uv_send ==
    /\ prod.pc = "idle"
    /\ loops > 0
    /\ EfdPollOut(writable)
    /\ \E bufsize \in SendSizes :
          /\ prod.size # 0 => bufsize = prod.size
          /\ prod' = [IdleProd EXCEPT !.pc = "mk_load", !.size = bufsize,
                                      !.units = SizeInWheel(bufsize)]
    /\ UNCHANGED <<spin_vars, cons, unshared, loops, tx_total, rx_total, rx_log,
                   pub_order, efd_vars>>

\* whl_efd_make_slice returned WHL_INVALID_OFFSET: the callback returns
do_uv_send_invalid ==
    /\ prod.pc = "emk_ret"
    /\ prod.ret = WHL_INVALID_OFFSET
    /\ prod' = [prod EXCEPT !.pc = "idle"]
    /\ UNCHANGED <<spin_vars, cons, unshared, loops, tx_total, rx_total, rx_log,
                   pub_order, efd_vars>>

\* whl_efd_make_slice returned an offset: write_buf, call whl_efd_share_slice
do_uv_send_write ==
    /\ prod.pc = "emk_ret"
    /\ prod.ret # WHL_INVALID_OFFSET
    /\ mem' = write_buf(mem, prod.ret, prod.size, prod.id)
    /\ loops' = loops - 1
    /\ prod' = [prod EXCEPT !.pc = "esh_store"]
    /\ UNCHANGED <<aligned_size, head_last, chain, cons, unshared, tx_total,
                   rx_total, rx_log, pub_order, efd_vars>>

\* whl_efd_share_slice returned: count the bytes
do_uv_send_count ==
    /\ prod.pc = "esh_ret"
    /\ tx_total' = tx_total + prod.size
    /\ prod' = IdleProd
    /\ UNCHANGED <<spin_vars, cons, unshared, loops, rx_total, rx_log,
                   pub_order, efd_vars>>

\* do_uv_read: call whl_efd_next_shared_slice
do_uv_read ==
    /\ cons.pc = "idle"
    /\ EfdPollIn(readable)
    /\ cons' = [cons EXCEPT !.pc = "nx_load"]
    /\ UNCHANGED <<spin_vars, prod, unshared, loops, tx_total, rx_total, rx_log,
                   pub_order, efd_vars>>

\* whl_efd_next_shared_slice returned WHL_INVALID_OFFSET: the callback returns
do_uv_read_invalid ==
    /\ cons.pc = "enx_ret"
    /\ cons.ret = WHL_INVALID_OFFSET
    /\ cons' = IdleCons
    /\ UNCHANGED <<spin_vars, prod, unshared, loops, tx_total, rx_total, rx_log,
                   pub_order, efd_vars>>

\* it returned an offset: test_buf, call whl_efd_return_slice
do_uv_read_return ==
    /\ cons.pc = "enx_ret"
    /\ cons.ret # WHL_INVALID_OFFSET
    /\ cons' = [cons EXCEPT !.pc = "rt_xchg", !.offset = cons.held.offset,
                            !.base = Reclaimed]
    /\ UNCHANGED <<spin_vars, prod, unshared, loops, tx_total, rx_total, rx_log,
                   pub_order, efd_vars>>

\* whl_efd_return_slice returned: count the bytes
do_uv_read_count ==
    /\ cons.pc = "ert_ret"
    /\ rx_total' = rx_total + cons.held.size
    /\ rx_log' = Append(rx_log, cons.held.mark)
    /\ cons' = IdleCons
    /\ UNCHANGED <<spin_vars, prod, unshared, loops, tx_total, pub_order, efd_vars>>

EfdProducer ==
    \/ do_uv_send
    \/ whl_make_slice_load
    \/ whl_make_slice_backfill
    \/ whl_make_slice_init
    \/ whl_make_slice_publish
    \/ whl_make_slice_reload
    \/ whl_efd_make_slice_xchg
    \/ whl_efd_make_slice_write
    \/ do_uv_send_invalid
    \/ do_uv_send_write
    \/ whl_efd_share_slice_store
    \/ whl_efd_share_slice_xchg
    \/ whl_efd_share_slice_write
    \/ do_uv_send_count

EfdConsumer ==
    \/ do_uv_read
    \/ whl_next_shared_slice_load
    \/ whl_next_shared_slice_state
    \/ whl_efd_next_shared_slice_xchg
    \/ whl_efd_next_shared_slice_read
    \/ do_uv_read_invalid
    \/ do_uv_read_return
    \/ whl_return_slice_xchg
    \/ whl_return_slice_load
    \/ whl_return_slice_head
    \/ whl_return_slice_state
    \/ whl_return_slice_cas
    \/ whl_return_slice_units
    \/ whl_return_slice_store
    \/ whl_efd_return_slice_xchg
    \/ whl_efd_return_slice_read
    \/ do_uv_read_count

NextEfd == EfdProducer \/ EfdConsumer

SpecEfd == Init /\ [][NextEfd]_vars

(***************************************************************************)
(* A caller that asks whl_make_slice for sizes over the whole range of     *)
(* size_t, shares what it gets without writing to it, and a consumer that  *)
(* peeks and returns.                                                      *)
(***************************************************************************)
\* request sizes: within one quantum, two quanta, one byte more than the
\* buffer, 2^31 quanta, 2^32 quanta and 48 bytes, and SIZE_MAX
SizeRequests ==
    {SizeT(16), SizeT(48), SizeT(100), SizeT(WheelQuanta * WHL_ALIGN),
     [hi |-> 2, lo |-> 0, r |-> 0], [hi |-> 4, lo |-> 0, r |-> 48], SIZE_MAX}

\* the call and the first statements of whl_make_slice: the overflow guard
\* and the size in quanta
whl_make_slice_size ==
    /\ prod.pc = "idle"
    /\ loops > 0
    /\ \E size \in SizeRequests :
          prod' = IF whl_make_slice_guard(size)
                  THEN [IdleProd EXCEPT !.pc = "mk_ret", !.size = size,
                                        !.ret = WHL_INVALID_OFFSET,
                                        !.mark = Reclaimed]
                  ELSE [IdleProd EXCEPT !.pc = "mk_load", !.size = size,
                                        !.units = aligned_size_in_wheel(size)]
    /\ UNCHANGED <<aligned_size, head_last, mem, cons, unshared, loops, tx_total,
                   rx_total, rx_log, chain, pub_order, efd_vars>>

\* whl_make_slice returned an offset: whl_share_slice
size_caller_share ==
    /\ prod.pc = "mk_ret"
    /\ prod.ret # WHL_INVALID_OFFSET
    /\ whl_share_slice(prod.ret)
    /\ loops' = loops - 1
    /\ prod' = IdleProd
    /\ UNCHANGED <<aligned_size, head_last, cons, unshared, tx_total,
                   rx_total, rx_log, pub_order, efd_vars>>

SizeProducer ==
    \/ whl_make_slice_size
    \/ whl_make_slice_load
    \/ whl_make_slice_backfill
    \/ whl_make_slice_init
    \/ whl_make_slice_publish
    \/ whl_make_slice_reload
    \/ run_spin_sender_spin
    \/ size_caller_share

\* the receiver peeks and returns, and does not add up the sizes
SizeConsumer ==
    \/ run_spin_receiver_next
    \/ whl_next_shared_slice_load
    \/ whl_next_shared_slice_state
    \/ run_spin_receiver_got
    \/ run_spin_receiver_return
    \/ whl_return_slice_xchg
    \/ whl_return_slice_load
    \/ whl_return_slice_head
    \/ whl_return_slice_state
    \/ whl_return_slice_cas
    \/ whl_return_slice_units
    \/ whl_return_slice_store
    \/ any_order_done

NextSize == SizeProducer \/ SizeConsumer

SpecSize == Init /\ [][NextSize]_vars

(***************************************************************************)
(* A caller whose requests also include one that is larger than the wheel  *)
(* and one that fills it exactly; it shares what it gets at once.          *)
(***************************************************************************)
\* request sizes in bytes: one quantum, two quanta, the whole wheel, more
PlaceSizes ==
    {16, 100, (WheelQuanta - 1) * WHL_ALIGN - SLICE_SIZEOF, WheelQuanta * WHL_ALIGN}

\* call whl_make_slice
place_caller_make ==
    /\ prod.pc = "idle"
    /\ loops > 0
    /\ \E bufsize \in PlaceSizes :
          prod' = [IdleProd EXCEPT !.pc = "mk_load", !.size = bufsize,
                                   !.units = SizeInWheel(bufsize)]
    /\ UNCHANGED <<aligned_size, head_last, mem, cons, unshared, loops, tx_total,
                   rx_total, rx_log, chain, pub_order, efd_vars>>

PlaceProducer ==
    \/ place_caller_make
    \/ whl_make_slice_load
    \/ whl_make_slice_backfill
    \/ whl_make_slice_init
    \/ whl_make_slice_publish
    \/ whl_make_slice_reload
    \/ run_spin_sender_spin
    \/ size_caller_share

NextPlace == PlaceProducer \/ SizeConsumer

SpecPlace == Init /\ [][NextPlace]_vars

(***************************************************************************)
(* whl_init applied to buffer sizes over the range of size_t.  The sender  *)
(* process of example.c makes the call; it writes the header only.         *)
(***************************************************************************)
\* buffer sizes: up to MaxInitQuanta quanta, around 2^26 quanta (2^32 bytes)
\* and around 2^32 quanta (2^38 bytes), each exact, one byte more and one
\* byte less than a quantum more
InitSizes ==
    {[hi |-> 0, lo |-> q, r |-> r] :
         q \in (0 .. MaxInitQuanta) \cup ((LIMB \div 16 - 3) .. (LIMB \div 16 + 1)),
         r \in {0, 1, WHL_ALIGN - 1}}
    \cup {[hi |-> 3, lo |-> q, r |-> r] :
             q \in {LIMB - 2, LIMB - 1}, r \in {0, 1, WHL_ALIGN - 1}}
    \cup {[hi |-> 4, lo |-> q, r |-> r] :
             q \in {0, 1}, r \in {0, 1, WHL_ALIGN - 1}}

whl_init_call ==
    /\ prod.pc \in {"idle", "init_ret"}
    /\ \E buf_size \in InitSizes :
          LET res == whl_init(buf_size)
          IN  /\ prod' = [pc |-> "init_ret", buf_size |-> buf_size, ret |-> res.ret]
              /\ IF res.ret = 0
                 THEN /\ aligned_size' = res.aligned_size
                      /\ head_last' = whl_invalid_offset_pair
                 ELSE UNCHANGED <<aligned_size, head_last>>
    /\ UNCHANGED <<mem, cons, unshared, loops, tx_total, rx_total, rx_log, chain,
                   pub_order, efd_vars>>

NextInit == whl_init_call

SpecInit == Init /\ [][NextInit]_vars

(***************************************************************************)
(* A scripted run on a 256-byte buffer: three 16-byte slices, each made    *)
(* and shared, then a 48-byte slice.  The receiver spins as in             *)
(* run_spin_receiver, so that a slice may be returned before the next is   *)
(* made or later.                                                          *)
(***************************************************************************)
WrapScript == <<16, 16, 16, 48>>

InitWrap ==
    /\ aligned_size = whl_init_size(4 * WHL_ALIGN)
    /\ head_last = whl_invalid_offset_pair
    /\ mem = [q \in 0 .. (aligned_size - 1) |-> ZeroQuantum]
    /\ prod = IdleProd
    /\ cons = IdleCons
    /\ unshared = <<>>
    /\ loops = Len(WrapScript)
    /\ tx_total = 0
    /\ rx_total = 0
    /\ rx_log = <<>>
    /\ chain = <<>>
    /\ pub_order = <<>>
    /\ is_readable = 0
    /\ is_writable = 1
    /\ readable = whl_efd_init_readable(is_readable)
    /\ writable = whl_efd_init_writable(is_writable)
    /\ errno = [prod |-> 0, cons |-> 0]

\* the next request of the script, once the slice before it was shared; mark
\* notes how many slices the receiver had returned when the call was made
wrap_script_make ==
    /\ prod.pc = "idle"
    /\ loops > 0
    /\ unshared = <<>>
    /\ LET bufsize == WrapScript[Len(WrapScript) - loops + 1]
       IN  prod' = [IdleProd EXCEPT !.pc = "mk_load", !.size = bufsize,
                                    !.units = SizeInWheel(bufsize),
                                    !.mark = Len(rx_log)]
    /\ UNCHANGED <<aligned_size, head_last, mem, cons, unshared, loops, tx_total,
                   rx_total, rx_log, chain, pub_order, efd_vars>>

WrapProducer ==
    \/ wrap_script_make
    \/ whl_make_slice_load
    \/ whl_make_slice_backfill
    \/ whl_make_slice_init
    \/ whl_make_slice_publish
    \/ whl_make_slice_reload
    \/ run_spin_sender_spin
    \/ run_spin_sender_write
    \/ run_spin_sender_share

NextWrap == WrapProducer \/ Consumer

SpecWrap == InitWrap /\ [][NextWrap]_vars

(***************************************************************************)
(* Termination of the calls.  A thread that is not stopped gets to run    *)
(* the call it is in: its next step is taken eventually.  At least one of  *)
(* the two threads is not stopped; the other may stop at any point, also   *)
(* inside a call, and nothing is assumed about the callers between calls.  *)
(* The producer follows the script on the 256-byte buffer; the consumer    *)
(* returns shared slices in any order.                                     *)
(***************************************************************************)
MakeSteps ==
    \/ whl_make_slice_load
    \/ whl_make_slice_backfill
    \/ whl_make_slice_init
    \/ whl_make_slice_publish
    \/ whl_make_slice_reload

ReturnSteps ==
    \/ whl_return_slice_xchg
    \/ whl_return_slice_load
    \/ whl_return_slice_head
    \/ whl_return_slice_state
    \/ whl_return_slice_cas
    \/ whl_return_slice_units
    \/ whl_return_slice_store

\* the producer is not stopped inside whl_make_slice
ProducerRuns == WF_vars(MakeSteps)

\* the consumer is not stopped inside whl_return_slice
ConsumerRuns == WF_vars(ReturnSteps)

NextTerm == WrapProducer \/ AnyOrderConsumer

SpecTerm == InitWrap /\ [][NextTerm]_vars /\ (ProducerRuns \/ ConsumerRuns)

(***************************************************************************)
(* The spin drivers as they are written: run_spin_sender draws a bufsize,  *)
(* calls whl_make_slice with it until it gets an offset, fills the buffer  *)
(* and shares the slice at once; run_spin_receiver calls                   *)
(* whl_next_shared_slice until it gets an offset and returns the slice at  *)
(* once.  Both threads keep running.  The buffer is the 256-byte one,      *)
(* which whl_init makes a wheel of three quanta.                           *)
(***************************************************************************)
\* request sizes: one quantum, two quanta, the whole wheel, and one byte
\* more than fits the whole wheel
FairSizes ==
    {16, 100, 3 * WHL_ALIGN - SLICE_SIZEOF, 3 * WHL_ALIGN - SLICE_SIZEOF + 1}

\* draw the bufsize and call whl_make_slice
spin_sender_make ==
    /\ prod.pc = "idle"
    /\ loops > 0
    /\ unshared = <<>>
    /\ \E bufsize \in FairSizes :
          prod' = [IdleProd EXCEPT !.pc = "mk_load", !.size = bufsize,
                                   !.units = SizeInWheel(bufsize)]
    /\ UNCHANGED <<aligned_size, head_last, mem, cons, unshared, loops, tx_total,
                   rx_total, rx_log, chain, pub_order, efd_vars>>

\* whl_make_slice returned WHL_INVALID_OFFSET: call it again with the same
\* bufsize
spin_sender_retry ==
    /\ prod.pc = "mk_ret"
    /\ prod.ret = WHL_INVALID_OFFSET
    /\ prod' = [IdleProd EXCEPT !.pc = "mk_load", !.size = prod.size,
                                !.units = prod.units]
    /\ UNCHANGED <<aligned_size, head_last, mem, cons, unshared, loops, tx_total,
                   rx_total, rx_log, chain, pub_order, efd_vars>>

\* call whl_next_shared_slice, while there are slices left to receive
spin_receiver_next ==
    /\ cons.pc = "idle"
    /\ Len(rx_log) < MaxLoops
    /\ cons' = [cons EXCEPT !.pc = "nx_load"]
    /\ UNCHANGED <<aligned_size, head_last, mem, prod, unshared, loops, tx_total,
                   rx_total, rx_log, chain, pub_order, efd_vars>>

FairProducer ==
    \/ spin_sender_make
    \/ whl_make_slice_load
    \/ whl_make_slice_backfill
    \/ whl_make_slice_init
    \/ whl_make_slice_publish
    \/ whl_make_slice_reload
    \/ spin_sender_retry
    \/ run_spin_sender_write
    \/ run_spin_sender_share

FairConsumer ==
    \/ spin_receiver_next
    \/ whl_next_shared_slice_load
    \/ whl_next_shared_slice_state
    \/ run_spin_receiver_got
    \/ run_spin_receiver_return
    \/ whl_return_slice_xchg
    \/ whl_return_slice_load
    \/ whl_return_slice_head
    \/ whl_return_slice_state
    \/ whl_return_slice_cas
    \/ whl_return_slice_units
    \/ whl_return_slice_store
    \/ run_spin_receiver_count

NextFair == FairProducer \/ FairConsumer

SpecFair == InitWrap /\ [][NextFair]_vars /\ WF_vars(FairProducer) /\ WF_vars(FairConsumer)

(***************************************************************************)
(* The eventfd variant called without polling first: a caller may call     *)
(* whl_efd_make_slice and whl_efd_next_shared_slice at any time, whatever  *)
(* the eventfds say.  The buffer is the 256-byte one and every request is  *)
(* 16 bytes.                                                               *)
(***************************************************************************)
ApiSizes == {16}

\* call whl_efd_make_slice
efd_caller_make ==
    /\ prod.pc = "idle"
    /\ loops > 0
    /\ \E bufsize \in ApiSizes :
          prod' = [IdleProd EXCEPT !.pc = "mk_load", !.size = bufsize,
                                   !.units = SizeInWheel(bufsize)]
    /\ UNCHANGED <<spin_vars, cons, unshared, loops, tx_total, rx_total, rx_log,
                   pub_order, efd_vars>>

\* call whl_efd_next_shared_slice
efd_caller_next ==
    /\ cons.pc = "idle"
    /\ cons' = [cons EXCEPT !.pc = "nx_load"]
    /\ UNCHANGED <<spin_vars, prod, unshared, loops, tx_total, rx_total, rx_log,
                   pub_order, efd_vars>>

EfdApiProducer ==
    \/ efd_caller_make
    \/ whl_make_slice_load
    \/ whl_make_slice_backfill
    \/ whl_make_slice_init
    \/ whl_make_slice_publish
    \/ whl_make_slice_reload
    \/ whl_efd_make_slice_xchg
    \/ whl_efd_make_slice_write
    \/ do_uv_send_invalid
    \/ do_uv_send_write
    \/ whl_efd_share_slice_store
    \/ whl_efd_share_slice_xchg
    \/ whl_efd_share_slice_write
    \/ do_uv_send_count

EfdApiConsumer ==
    \/ efd_caller_next
    \/ whl_next_shared_slice_load
    \/ whl_next_shared_slice_state
    \/ whl_efd_next_shared_slice_xchg
    \/ whl_efd_next_shared_slice_read
    \/ do_uv_read_invalid
    \/ do_uv_read_return
    \/ whl_return_slice_xchg
    \/ whl_return_slice_load
    \/ whl_return_slice_head
    \/ whl_return_slice_state
    \/ whl_return_slice_cas
    \/ whl_return_slice_units
    \/ whl_return_slice_store
    \/ whl_efd_return_slice_xchg
    \/ whl_efd_return_slice_read
    \/ do_uv_read_count

NextEfdApi == EfdApiProducer \/ EfdApiConsumer

SpecEfdApi == InitWrap /\ [][NextEfdApi]_vars

(***************************************************************************)
(* The eventfd variant with returns in any order: the consumer is passed   *)
(* the offsets of shared slices by other means and calls                   *)
(* whl_efd_return_slice on them in an order of its own, possibly twice     *)
(* while the slice is still in the wheel.                                  *)
(***************************************************************************)
\* whl_efd_return_slice returned
efd_any_order_done ==
    /\ cons.pc = "ert_ret"
    /\ cons' = IdleCons
    /\ UNCHANGED <<spin_vars, prod, unshared, loops, tx_total, rx_total, rx_log,
                   pub_order, efd_vars>>

EfdAnyOrderConsumer ==
    \/ any_order_return
    \/ whl_return_slice_xchg
    \/ whl_return_slice_load
    \/ whl_return_slice_head
    \/ whl_return_slice_state
    \/ whl_return_slice_cas
    \/ whl_return_slice_units
    \/ whl_return_slice_store
    \/ whl_efd_return_slice_xchg
    \/ whl_efd_return_slice_read
    \/ efd_any_order_done

NextEfdAnyOrder == EfdProducer \/ EfdAnyOrderConsumer

SpecEfdAnyOrder == Init /\ [][NextEfdAnyOrder]_vars

(***************************************************************************)
(* The receiver's side of the handshake (src/scm.c and main_receiver of    *)
(* src/example.c): one message is received from the socket, carrying the   *)
(* handles as SCM_RIGHTS control data.  The consumer process's record      *)
(* holds its locals; fds and memfd are not initialised by the code, so     *)
(* they start with any value.                                              *)
(***************************************************************************)
\* an int returned where the function's type is size_t
IntToSizeT(x) == IF x >= 0 THEN SizeT(x) ELSE SzAdd(SIZE_MAX, x + 1)

\* the descriptor numbers the kernel installs for n handles received
Installed(n) == [i \in 1 .. n |-> 9 + i]

\* what recvmsg may deliver: a failure, data without control data (or end of
\* stream), one byte with control data of another type, or one byte with n
\* handles as SCM_RIGHTS control data
Messages ==
    {[ret |-> -1, cmsg |-> FALSE, type |-> "none", fds |-> <<>>]}
    \cup {[ret |-> n, cmsg |-> FALSE, type |-> "none", fds |-> <<>>] : n \in {0, 1}}
    \cup {[ret |-> 1, cmsg |-> TRUE, type |-> "SCM_CREDENTIALS", fds |-> <<>>]}
    \cup {[ret |-> 1, cmsg |-> TRUE, type |-> "SCM_RIGHTS", fds |-> Installed(n)] :
             n \in 1 .. MaxHandles}

\* values an uninitialised int may hold
Indeterminate == {-1, 0, 5}

\* the copy loop of recv_fds_with_data: i handles are copied so far
RECURSIVE CopyFds(_, _, _, _)
CopyFds(fds, outfds, maxfds, i) ==
    IF i < maxfds /\ i < Len(fds)
    THEN CopyFds(fds, [outfds EXCEPT ![i + 1] = fds[i + 1]], maxfds, i + 1)
    ELSE [outfds |-> outfds, i |-> i]

\* the close loop of recv_fds_with_data, from the handle after the first pos
RECURSIVE CloseFds(_, _)
CloseFds(fds, pos) ==
    IF pos < Len(fds) THEN <<fds[pos + 1]>> \o CloseFds(fds, pos + 1) ELSE <<>>

\* mutant: the handles beyond the caller's maximum are left open
recv_fds_with_data_leak(msg, outfds, n_outfds) ==
    LET maxfds == n_outfds
        ret == msg.ret
        c == CopyFds(msg.fds, outfds, maxfds, 0)
    IN  IF ret < 0
        THEN [ret |-> IntToSizeT(ret), outfds |-> outfds, n_outfds |-> n_outfds,
              closed |-> <<>>]
        ELSE IF ~msg.cmsg \/ msg.type # "SCM_RIGHTS"
        THEN [ret |-> IntToSizeT(ret), outfds |-> outfds, n_outfds |-> 0,
              closed |-> <<>>]
        ELSE [ret |-> IntToSizeT(ret), outfds |-> c.outfds, n_outfds |-> c.i,
              closed |-> <<>>]

\* recv_fds_with_data: the value returned, outfds and *n_outfds after it, and
\* the descriptors it closed
recv_fds_with_data(msg, outfds, n_outfds) ==
    LET maxfds == n_outfds
        ret == msg.ret
        c == CopyFds(msg.fds, outfds, maxfds, 0)
    IN  IF ret < 0
        THEN [ret |-> IntToSizeT(ret), outfds |-> outfds, n_outfds |-> n_outfds,
              closed |-> <<>>]
        ELSE IF ~msg.cmsg \/ msg.type # "SCM_RIGHTS"
        THEN [ret |-> IntToSizeT(ret), outfds |-> outfds, n_outfds |-> 0,
              closed |-> <<>>]
        ELSE [ret |-> IntToSizeT(ret), outfds |-> c.outfds, n_outfds |-> c.i,
              closed |-> CloseFds(msg.fds, c.i)]

recv_fds(msg, outfds, n_outfds) == recv_fds_with_data(msg, outfds, n_outfds)

\* recv_fd: the value returned and *outfd after it
recv_fd(msg, outfd) ==
    LET r == recv_fds(msg, <<outfd>>, 1)
    IN  IF SzLess(r.ret, SizeT(0))
        THEN [ret |-> IntToSizeT(-1), outfd |-> r.outfds[1]]
        ELSE [ret |-> SizeT(r.n_outfds), outfd |-> r.outfds[1]]

\* main_receiver: pick the transport; the locals of the function entered
main_receiver ==
    /\ cons.pc = "idle"
    /\ \E tport \in {"libuv", "spin"}, a \in [1 .. 3 -> Indeterminate] :
          cons' = [pc |-> "hs_recv", tport |-> tport,
                   fds |-> IF tport = "libuv" THEN a ELSE <<a[1]>>]
    /\ UNCHANGED <<aligned_size, head_last, mem, prod, unshared, loops, tx_total,
                   rx_total, rx_log, chain, pub_order, efd_vars>>

\* _main_receiver_libuv up to its first return or to open_shm
main_receiver_libuv_recv ==
    /\ cons.pc = "hs_recv"
    /\ cons.tport = "libuv"
    /\ \E msg \in Messages :
          LET r == recv_fds(msg, cons.fds, Len(cons.fds))
          IN  cons' = [pc |-> IF SzLess(r.ret, SizeT(0)) \/ r.n_outfds # Len(cons.fds)
                              THEN "hs_err" ELSE "hs_open",
                       tport |-> cons.tport, fds |-> r.outfds, msg |-> msg,
                       ret |-> r.ret]
    /\ UNCHANGED <<aligned_size, head_last, mem, prod, unshared, loops, tx_total,
                   rx_total, rx_log, chain, pub_order, efd_vars>>

\* _main_receiver_spin up to its first return or to open_shm
main_receiver_spin_recv ==
    /\ cons.pc = "hs_recv"
    /\ cons.tport = "spin"
    /\ \E msg \in Messages :
          LET r == recv_fd(msg, cons.fds[1])
          IN  cons' = [pc |-> IF SzLess(r.ret, SizeT(0)) THEN "hs_err" ELSE "hs_open",
                       tport |-> cons.tport, fds |-> <<r.outfd>>, msg |-> msg,
                       ret |-> r.ret]
    /\ UNCHANGED <<aligned_size, head_last, mem, prod, unshared, loops, tx_total,
                   rx_total, rx_log, chain, pub_order, efd_vars>>

\* open_shm: mmap of the first handle; it may fail
open_shm ==
    /\ cons.pc = "hs_open"
    /\ \E ok \in BOOLEAN :
          cons' = [cons EXCEPT !.pc = IF ok THEN "hs_mapped" ELSE "hs_open_err"]
    /\ UNCHANGED <<aligned_size, head_last, mem, prod, unshared, loops, tx_total,
                   rx_total, rx_log, chain, pub_order, efd_vars>>

NextHandshake ==
    \/ main_receiver
    \/ main_receiver_libuv_recv
    \/ main_receiver_spin_recv
    \/ open_shm

SpecHandshake == Init /\ [][NextHandshake]_vars

(***************************************************************************)
(* Passing handles (src/scm.c): the sender process calls                   *)
(* send_fds_with_data once, the receiver process calls recv_fds_with_data  *)
(* once with a maximum of its own, on the datagram the sender sent or on   *)
(* another message.  assert is compiled in or out (NDEBUG).                *)
(***************************************************************************)
\* the descriptors the sender passes
SendHandles(n) == [i \in 1 .. n |-> 2 + i]

\* send_fds_with_data: how the call ends, the value returned, errno, and the
\* datagrams put on the socket
send_fds_with_data(fds, buflen, ndebug, sendmsg_ok) ==
    IF Len(fds) > SCM_MAX_FDS
    THEN IF ~ndebug
         THEN [outcome |-> "abort", ret |-> <<>>, errno |-> 0, dgram |-> <<>>]
         ELSE [outcome |-> "return", ret |-> IntToSizeT(-1), errno |-> E2BIG,
               dgram |-> <<>>]
    ELSE IF sendmsg_ok
    THEN [outcome |-> "return", ret |-> IntToSizeT(buflen), errno |-> 0,
          dgram |-> <<[ret |-> buflen, cmsg |-> TRUE, type |-> "SCM_RIGHTS",
                       fds |-> [i \in 1 .. Len(fds) |-> fds[i]]]>>]
    ELSE [outcome |-> "return", ret |-> IntToSizeT(-1), errno |-> ECONNRESET,
          dgram |-> <<>>]

\* the sender calls send_fds (one byte of data) with n handles
send_fds_with_data_call ==
    /\ prod.pc = "idle"
    /\ \E n \in 0 .. MaxSent, ndebug \in BOOLEAN, sendmsg_ok \in BOOLEAN :
          LET s == send_fds_with_data(SendHandles(n), 1, ndebug, sendmsg_ok)
          IN  prod' = [pc |-> "sent", fds |-> SendHandles(n), ndebug |-> ndebug,
                       sendmsg_ok |-> sendmsg_ok, outcome |-> s.outcome,
                       ret |-> s.ret, errno |-> s.errno, dgram |-> s.dgram]
    /\ UNCHANGED <<aligned_size, head_last, mem, cons, unshared, loops, tx_total,
                   rx_total, rx_log, chain, pub_order, efd_vars>>

\* the datagram on the socket as recvmsg delivers it
Delivered ==
    IF prod.pc = "sent" /\ prod.dgram # <<>>
    THEN {[prod.dgram[1] EXCEPT !.fds = Installed(Len(prod.dgram[1].fds))]}
    ELSE {}

\* the receiver calls recv_fds_with_data with room for k handles
recv_fds_with_data_call ==
    /\ cons.pc = "idle"
    /\ \E msg \in Messages \cup Delivered, k \in 0 .. MaxHandles, g \in Indeterminate :
          LET outfds == [i \in 1 .. k |-> g]
          IN  cons' = [pc |-> "received", msg |-> msg, k |-> k, outfds |-> outfds,
                       r |-> recv_fds_with_data(msg, outfds, k)]
    /\ UNCHANGED <<aligned_size, head_last, mem, prod, unshared, loops, tx_total,
                   rx_total, rx_log, chain, pub_order, efd_vars>>

NextScm == send_fds_with_data_call \/ recv_fds_with_data_call

SpecScm == Init /\ [][NextScm]_vars

(***************************************************************************)
(* Properties of the spin variant.                                         *)
(***************************************************************************)
PairValid == head_last.head # WHL_INVALID_OFFSET

Units(off) == mem[off].aligned_size_in_wheel

Region(off) == off .. (off + Units(off) - 1)

\* C1: in every reachable state, at the granularity of the single atomic
\* accesses to head_last, head is invalid if and only if last is invalid.
C1_BothOrNeither ==
    (head_last.head = WHL_INVALID_OFFSET) <=> (head_last.last = WHL_INVALID_OFFSET)

\* the consumer emptied the wheel between the producer's snapshot of a valid
\* pair and the producer's pair update
C1_Witness ==
    /\ prod.pc = "mk_reload"
    /\ head_last = whl_invalid_offset_pair
    /\ prod.offset # 0

\* C2: while the pair is valid, the walk from head by each slice's units
\* (modulo aligned_size) visits exactly the live slices in allocation order
\* and ends at last; their regions are pairwise disjoint and inside the
\* wheel; the region whl_make_slice is about to hand out overlaps none.
C2_ChainContiguous ==
    /\ PairValid <=> chain # <<>>
    /\ PairValid =>
          /\ chain[1].off = head_last.head
          /\ chain[Len(chain)].off = head_last.last
          /\ \A i \in 1 .. (Len(chain) - 1) :
                NextHead(chain[i].off, Units(chain[i].off)) = chain[i + 1].off
          /\ \A i \in 1 .. Len(chain) :
                /\ Units(chain[i].off) >= chain[i].need
                /\ Region(chain[i].off) \subseteq 0 .. (aligned_size - 1)
          /\ \A i, j \in 1 .. Len(chain) :
                i # j => Region(chain[i].off) \cap Region(chain[j].off) = {}
    /\ prod.pc \in {"mk_init", "mk_publish", "mk_reload"} =>
          \A i \in 1 .. Len(chain) :
             (prod.offset .. (prod.offset + prod.units - 1))
                 \cap (chain[i].off .. (chain[i].off + chain[i].need - 1)) = {}

\* the wheel has wrapped and the slice before the wrap was grown by the
\* back-fill, while the consumer is inside whl_return_slice
C2_Witness ==
    /\ Len(chain) >= 2
    /\ head_last.last < head_last.head
    /\ \E i \in 1 .. (Len(chain) - 1) :
          /\ chain[i + 1].off = 0
          /\ Units(chain[i].off) > chain[i].need
    /\ cons.pc = "rt_load"

\* the header and the payload of a live slice are as the producer wrote them
Intact(e) ==
    /\ mem[e.off].trailing_user_size = e.size
    /\ \A q \in PayloadQuanta(e.off, e.size) :
          /\ mem[q].buf = e.id
          /\ q # e.off => mem[q].state = FILL_BYTE

\* C3: from its publish to its return a slice's header and payload are not
\* written by any whl_make_slice, and a successful whl_next_shared_slice
\* hands out the size and the payload of such a slice.
C3_PeekSeesPayload ==
    /\ \A i \in 1 .. Len(chain) :
          chain[i].shared /\ ~chain[i].returned =>
             Intact(chain[i]) /\ mem[chain[i].off].state = WHL_SLICE_READABLE
    /\ cons.pc = "nx_ret" /\ cons.ret # WHL_INVALID_OFFSET =>
          \E i \in 1 .. Len(chain) :
             /\ chain[i].shared
             /\ cons.held = [offset |-> chain[i].off, size |-> chain[i].size,
                             mark |-> chain[i].id]

\* the consumer got a slice while the producer, after a wrap, is handing out
\* the next one
C3_Witness ==
    /\ cons.pc = "nx_ret"
    /\ cons.ret # WHL_INVALID_OFFSET
    /\ cons.ret # 0
    /\ prod.pc = "mk_publish"
    /\ prod.offset = 0

IndexOf(s, x) == CHOOSE i \in 1 .. Len(s) : s[i] = x

Range(s) == {s[i] : i \in 1 .. Len(s)}

Quiescent == prod.pc = "idle" /\ cons.pc = "idle" /\ unshared = <<>>

\* C5: no slice is handed out twice or without having been published; and
\* whenever both loops are between calls with nothing held, the wheel is
\* empty exactly when every published slice has been returned, and then the
\* receiver counted as many slices and bytes as the sender published.
C5_ExactlyOnce ==
    /\ \A i, j \in 1 .. Len(rx_log) : rx_log[i] = rx_log[j] => i = j
    /\ Range(rx_log) \subseteq Range(pub_order)
    /\ Quiescent =>
          /\ (head_last = whl_invalid_offset_pair) <=> (Len(rx_log) = Len(pub_order))
          /\ Len(rx_log) = Len(pub_order) => rx_total = tx_total

\* everything the sender had to send was published and returned
C5_Witness ==
    /\ Quiescent
    /\ loops = 0
    /\ Len(rx_log) = MaxLoops
    /\ rx_total > 0

\* C9: a successful whl_next_shared_slice that follows a successful one with
\* no whl_return_slice between hands out the same offset, size and buffer,
\* whatever the producer did meanwhile; and no step of the call changes
\* head_last or the buffer.
C9_PeekIdempotent ==
    [][/\ (cons.pc = "nx_state" /\ cons.again /\ cons'.pc = "nx_ret"
              /\ cons'.ret # WHL_INVALID_OFFSET)
           => (cons'.held = cons.held /\ cons'.ret = cons.held.offset)
       /\ (cons.pc \in {"nx_load", "nx_state"} /\ cons'.pc # cons.pc)
           => (head_last' = head_last /\ mem' = mem)]_vars

\* a second look succeeded after the producer appended another slice
C9_Witness ==
    /\ cons.pc = "nx_ret"
    /\ cons.again
    /\ cons.ret # WHL_INVALID_OFFSET
    /\ Len(chain) >= 2
    /\ chain[2].shared

\* a step of the consumer inside whl_return_slice
ReturnStep(from) == cons.pc = from /\ cons'.pc # from

\* C10: whl_return_slice marks the slice RETURNED; head moves only past a
\* slice that is RETURNED and at head, to the slice allocated next (or the
\* pair becomes invalid after the last one); when the call ends no RETURNED
\* slice is left at head and the value returned is the number of slices head
\* moved past during the call; on a slice already RETURNED it returns 0 and
\* changes neither head_last nor the buffer.
C10_ReturnReclaims ==
    /\ [](cons.pc = "rt_ret" =>
             /\ cons.ret = Reclaimed - cons.base
             /\ (chain = <<>> \/ ~chain[1].returned))
    /\ [][/\ ReturnStep("rt_xchg") =>
                /\ mem'[cons.offset].state = WHL_SLICE_RETURNED
                /\ mem[cons.offset].state = WHL_SLICE_RETURNED =>
                      (cons'.pc = "rt_ret" /\ cons'.ret = 0
                         /\ mem' = mem /\ head_last' = head_last)
          /\ head_last'.head # head_last.head /\ head_last.head # WHL_INVALID_OFFSET =>
                /\ mem[head_last.head].state = WHL_SLICE_RETURNED
                /\ chain[1].returned
                /\ chain' = Tail(chain)
                /\ head_last'.head = IF Len(chain) > 1 THEN chain[2].off
                                     ELSE WHL_INVALID_OFFSET]_vars

\* one call reclaimed two slices: the second had been returned before the
\* first, against the allocation order
C10_Witness ==
    /\ cons.pc = "rt_ret"
    /\ cons.ret = 2
    /\ chain # <<>>

\* whl_return_slice has finished a call that began with one live slice, and
\* no slice has been allocated since the call began
OnlySliceReturned ==
    /\ cons.pc = "rt_ret"
    /\ Allocated = cons.base + 1

\* C16: a whl_return_slice on the only live slice, with no allocation in
\* between, reports 1 and leaves the wheel empty; the compare-exchange that
\* releases the slice found head = last and makes head and last invalid in
\* one step; and a whl_make_slice that loads the invalid pair places a request
\* that fits at offset 0.
C16_LastSliceEmptiesWheel ==
    /\ [](OnlySliceReturned =>
             /\ cons.ret = 1
             /\ head_last = whl_invalid_offset_pair
             /\ chain = <<>>)
    /\ [][/\ cons.pc = "rt_cas" /\ cons'.pc = "rt_load" =>
                /\ head_last.head = head_last.last
                /\ head_last' = whl_invalid_offset_pair
          /\ (/\ prod.pc = "mk_load" /\ prod'.pc # "mk_load"
              /\ head_last = whl_invalid_offset_pair
              /\ prod.units <= aligned_size) =>
                (prod'.offset = 0 /\ prod'.pc = "mk_init")]_vars

\* the only live slice has been returned, and the producer has since placed
\* its next slice
C16_Witness ==
    /\ OnlySliceReturned
    /\ cons.ret = 1
    /\ prod.pc = "mk_init"
    /\ prod.offset = 0
    /\ prod.pair = whl_invalid_offset_pair

\* C18: try-again has no effect.  A whl_make_slice that returns
\* WHL_INVALID_OFFSET does so straight from its entry or from its load of
\* head_last, and neither step changes *bufp, head_last or any slice header
\* (so no back-fill was written); a whl_next_shared_slice that returns
\* WHL_INVALID_OFFSET has changed neither *bufp nor *size on the way.
C18_TryAgainNoEffect ==
    /\ [][(prod.pc # "mk_ret" /\ prod'.pc = "mk_ret"
            /\ prod'.ret = WHL_INVALID_OFFSET) =>
             /\ prod.pc \in {"idle", "mk_load"}
             /\ prod'.bufp = prod.bufp
             /\ head_last' = head_last
             /\ mem' = mem]_vars
    /\ [][(prod.pc = "idle" /\ prod'.pc = "mk_load") =>
             /\ prod'.bufp = prod.bufp
             /\ head_last' = head_last
             /\ mem' = mem]_vars
    /\ [][(cons.pc # "nx_ret" /\ cons'.pc = "nx_ret"
            /\ cons'.ret = WHL_INVALID_OFFSET) =>
             /\ cons.pc \in {"nx_load", "nx_state"}
             /\ cons'.held = cons.held]_vars
    /\ [][(cons.pc \in {"idle", "got", "nx_load"}
            /\ cons'.pc \in {"nx_load", "nx_state"}) =>
             cons'.held = cons.held]_vars

\* both calls have come back with WHL_INVALID_OFFSET: the wheel has no room
\* for the request, and the consumer looked before the first slice was shared
C18_Witness ==
    /\ prod.pc = "mk_ret"
    /\ prod.ret = WHL_INVALID_OFFSET
    /\ head_last.last # WHL_INVALID_OFFSET
    /\ prod.bufp = <<>>
    /\ cons.pc = "nx_ret"
    /\ cons.ret = WHL_INVALID_OFFSET
    /\ cons.held = <<>>

\* the placement policy in words: the offset for a need in quanta and a
\* snapshot of the pair
Policy(need, pair) ==
    IF pair = whl_invalid_offset_pair
    THEN IF need <= aligned_size THEN 0 ELSE WHL_INVALID_OFFSET
    ELSE LET last_end == pair.last + Units(pair.last)
         IN  IF pair.last < pair.head
             THEN IF need <= pair.head - last_end THEN last_end
                  ELSE WHL_INVALID_OFFSET
             ELSE IF need <= aligned_size - last_end THEN last_end
                  ELSE IF need <= pair.head THEN 0
                  ELSE WHL_INVALID_OFFSET

\* the offset whl_make_slice has settled on after its load of the pair
Chosen(p) == IF p.pc = "mk_ret" THEN p.ret ELSE p.offset

\* C23: whl_make_slice returns the offset the placement policy gives for the
\* pair it loaded: 0 on an empty wheel iff the need is at most aligned_size;
\* last_end iff the need fits between last_end and head when last < head;
\* when last >= head, last_end if the need fits up to the end of the wheel,
\* else 0 if the need is at most head; WHL_INVALID_OFFSET otherwise.
C23_PlacementPolicy ==
    /\ [][(prod.pc = "mk_load" /\ prod'.pc # "mk_load") =>
             Chosen(prod') = Policy(prod.units, head_last)]_vars
    /\ [][(prod.pc \in {"mk_backfill", "mk_init", "mk_publish", "mk_reload"}
            /\ prod'.pc # "idle") => Chosen(prod') = prod.offset]_vars

\* the suffix is too short and the request goes to offset 0, up to head
C23_Witness ==
    /\ prod.pc = "mk_backfill"
    /\ prod.offset = 0
    /\ prod.pair.head <= prod.pair.last
    /\ prod.units <= prod.pair.head
    /\ prod.units > aligned_size - (prod.pair.last + Units(prod.pair.last))

\* whl_make_slice makes the slice at offset 0 the last one of a wheel that
\* is not empty
PublishAfterWrap ==
    /\ prod.pc = "mk_publish"
    /\ prod.offset = 0
    /\ head_last # whl_invalid_offset_pair
    /\ head_last'.last = 0
    /\ head_last' # head_last

\* the consumer moves head off a slice
HeadAdvance ==
    /\ cons'.pc # cons.pc
    /\ head_last.head # WHL_INVALID_OFFSET
    /\ head_last'.head # head_last.head

\* C24: when whl_make_slice places a slice at offset 0 in a wheel that is
\* not empty, the old last slice holds aligned_size - old_last units before
\* the pair update that makes the new slice last, and from then until it is
\* reclaimed; so whenever the consumer moves head past a slice, the new head
\* is the offset of the slice allocated right after it (offset 0 after a
\* wrap), or the pair becomes invalid when there is none.
C24_BackfillBeforePublish ==
    /\ [][PublishAfterWrap =>
             /\ Units(head_last.last) = aligned_size - head_last.last
             /\ mem'[head_last.last].aligned_size_in_wheel
                   = aligned_size - head_last.last]_vars
    /\ [](\A i \in 1 .. (Len(chain) - 1) :
             chain[i + 1].off = 0 =>
                Units(chain[i].off) = aligned_size - chain[i].off)
    /\ [][HeadAdvance =>
             IF Len(chain) > 1
             THEN /\ head_last'.head = chain[2].off
                  /\ chain[2].off # 0 =>
                        chain[2].off = chain[1].off + chain[1].need
                  /\ chain[2].off = 0 =>
                        chain[1].off + Units(chain[1].off) = aligned_size
             ELSE head_last' = whl_invalid_offset_pair]_vars

\* the consumer is about to move head to offset 0 past a slice that the
\* back-fill has grown beyond what was asked for
C24_Witness ==
    /\ cons.pc = "rt_store"
    /\ cons.next_head = 0
    /\ Len(chain) > 1
    /\ chain[1].off = head_last.head
    /\ chain[2].off = 0
    /\ Units(chain[1].off) > chain[1].need

\* the pair update of whl_make_slice takes effect
PairUpdate == prod.pc = "mk_publish" /\ prod'.pc = "mk_ret"

\* C25: the pair update of whl_make_slice keeps what the consumer did since
\* the snapshot.  It sets last to the new offset and leaves head as the
\* consumer has it now, or sets head to the new offset too when the wheel is
\* empty by now; when whl_make_slice has returned, last is the new offset,
\* the new slice is the newest live slice, and head is the offset of the
\* oldest live slice, never of a reclaimed one.
C25_NoStaleHead ==
    /\ [][PairUpdate =>
             /\ head_last'.last = prod.offset
             /\ head_last'.head = IF head_last = whl_invalid_offset_pair
                                  THEN prod.offset ELSE head_last.head
             /\ head_last.head # WHL_INVALID_OFFSET =>
                   head_last.head = chain[1].off]_vars
    /\ []((prod.pc = "mk_ret" /\ prod.ret # WHL_INVALID_OFFSET) =>
             /\ head_last.last = prod.ret
             /\ chain # <<>>
             /\ chain[Len(chain)].off = prod.ret
             /\ ~chain[Len(chain)].shared
             /\ head_last.head = chain[1].off)
    /\ [](PairValid => (chain # <<>> /\ head_last.head = chain[1].off))

\* whl_make_slice has returned an offset other than 0 and its slice is the
\* only one: the consumer emptied the wheel after the snapshot was taken
C25_Witness ==
    /\ prod.pc = "mk_ret"
    /\ prod.ret # WHL_INVALID_OFFSET
    /\ prod.ret # 0
    /\ head_last = [head |-> prod.ret, last |-> prod.ret]
    /\ Len(chain) = 1

\* the state a live slice must be in, by what has been done with it
StateOf(e) ==
    IF e.returned THEN WHL_SLICE_RETURNED
    ELSE IF e.shared THEN WHL_SLICE_READABLE
    ELSE WHL_SLICE_UNINIT

\* a step changes the state of a live slice only from UNINIT to READABLE, by
\* whl_share_slice, or from READABLE to RETURNED, by whl_return_slice
LifecycleStep ==
    \A i \in 1 .. Len(chain), j \in 1 .. Len(chain') :
        chain[i].id = chain'[j].id =>
            LET s == mem[chain[i].off].state
                t == mem'[chain[i].off].state
            IN  \/ t = s
                \/ /\ s = WHL_SLICE_UNINIT
                   /\ t = WHL_SLICE_READABLE
                   /\ prod.pc = "idle"
                   /\ Len(unshared') < Len(unshared)
                \/ /\ s = WHL_SLICE_READABLE
                   /\ t = WHL_SLICE_RETURNED
                   /\ cons.pc = "rt_xchg"
                   /\ cons.offset = chain[i].off

\* whl_next_shared_slice hands out an offset
PeekSucceeds ==
    /\ cons.pc = "nx_state"
    /\ cons'.pc = "nx_ret"
    /\ cons'.ret # WHL_INVALID_OFFSET

\* C27: the state of a live slice is UNINIT from whl_make_slice until it is
\* shared, READABLE from then until it is returned and RETURNED from then
\* until head moves past it, and no step moves it backwards;
\* whl_next_shared_slice hands out a slice only when it is the head slice
\* and its state is READABLE; and head moves past a slice, taking it off the
\* chain, only when it is the head slice and its state is RETURNED.
C27_Lifecycle ==
    [][ /\ \A i \in 1 .. Len(chain) : mem[chain[i].off].state = StateOf(chain[i])
        /\ LifecycleStep
        /\ Len(chain') > Len(chain) =>
               mem'[chain'[Len(chain')].off].state = WHL_SLICE_UNINIT
        /\ PeekSucceeds =>
               /\ cons'.ret = head_last.head
               /\ mem[cons'.ret].state = WHL_SLICE_READABLE
        /\ (HeadAdvance \/ Len(chain') < Len(chain)) =>
               /\ HeadAdvance
               /\ chain' = Tail(chain)
               /\ Head(chain).off = head_last.head
               /\ mem[head_last.head].state = WHL_SLICE_RETURNED
      ]_vars

\* a slice was reclaimed and its quanta are used by a later slice, while the
\* wheel holds a slice in each of the three states
C27_Witness ==
    /\ Reclaimed >= 1
    /\ Len(chain) = 3
    /\ chain[1].off > chain[3].off
    /\ mem[chain[1].off].state = WHL_SLICE_RETURNED
    /\ mem[chain[2].off].state = WHL_SLICE_READABLE
    /\ mem[chain[3].off].state = WHL_SLICE_UNINIT

\* the producer is inside whl_make_slice
InMake == prod.pc \in {"mk_load", "mk_backfill", "mk_init", "mk_publish", "mk_reload"}

\* the consumer is inside whl_return_slice
InSpinReturn ==
    cons.pc \in {"rt_xchg", "rt_load", "rt_head", "rt_state", "rt_cas", "rt_units",
                 "rt_store"}

\* the compare-exchange of whl_make_slice fails and the loop goes round
MakeRetry == prod.pc = "mk_publish" /\ prod'.pc = "mk_reload"

\* the reclaim loop of whl_return_slice completes an iteration
ReclaimIteration == InSpinReturn /\ cons'.returns = cons.returns + 1

\* C29: every call of whl_make_slice and of whl_return_slice whose thread is
\* not stopped comes to its return, whatever the other side does and
\* wherever it stops; the compare-exchange
\* loop of whl_make_slice goes round only when the consumer has moved head
\* since the pair was last loaded, and every iteration of the reclaim loop
\* of whl_return_slice takes one RETURNED slice off the front of the chain,
\* so that the iterations of a call number the slices reclaimed during it.
C29_CallsTerminate ==
    /\ ProducerRuns => (InMake ~> prod.pc = "mk_ret")
    /\ ConsumerRuns => (InSpinReturn ~> cons.pc = "rt_ret")
    /\ [][ /\ MakeRetry =>
                 /\ head_last.head # prod.pair.head
                 /\ \/ head_last.last = prod.pair.last
                    \/ head_last = whl_invalid_offset_pair
           /\ (InSpinReturn /\ cons'.returns # cons.returns) =>
                 /\ cons'.returns = cons.returns + 1
                 /\ chain # <<>>
                 /\ Head(chain).returned
                 /\ chain' = Tail(chain)
           /\ InSpinReturn /\ cons.pc # "rt_xchg" =>
                 cons.returns = Reclaimed - cons.base
         ]_vars

\* the compare-exchange of whl_make_slice has failed and the pair is about
\* to be loaded again, while a whl_return_slice that went round its loop
\* twice has come to its return
C29_Witness ==
    /\ prod.pc = "mk_reload"
    /\ head_last # whl_invalid_offset_pair
    /\ cons.pc = "rt_ret"
    /\ cons.ret = 2

\* the slice with payload mark i has been handed out by
\* whl_next_shared_slice
PeekedMark(i) ==
    \/ cons.held # <<>> /\ cons.held.mark = i
    \/ i \in Range(rx_log)

\* the producer holds the slice at off between whl_make_slice and
\* whl_share_slice
HeldByProducer(off) ==
    \/ prod.pc = "mk_ret" /\ prod.ret = off
    \/ \E k \in 1 .. Len(unshared) : unshared[k].offset = off

\* C30: with both spin loops running, every whl_make_slice request that
\* needs no more quanta than the wheel has gets an offset in the end, and
\* every slice shared is handed out by whl_next_shared_slice in the end; in
\* every state of a wheel that is not empty the head slice is one the
\* producer is about to share, one the consumer can peek and return, or one
\* the consumer is reclaiming; and whl_make_slice on an empty wheel fails
\* only for a request that needs more quanta than the wheel has.
C30_SpinProgress ==
    /\ (prod.pc = "mk_load" /\ ULe(prod.units, aligned_size))
          ~> (prod.pc = "mk_ret" /\ prod.ret # WHL_INVALID_OFFSET)
    /\ \A i \in 1 .. MaxLoops : (i \in Range(pub_order)) ~> PeekedMark(i)
    /\ [](PairValid =>
             /\ chain # <<>>
             /\ Head(chain).off = head_last.head
             /\ \/ mem[head_last.head].state = WHL_SLICE_UNINIT
                   /\ HeldByProducer(head_last.head)
                \/ mem[head_last.head].state = WHL_SLICE_READABLE
                \/ mem[head_last.head].state = WHL_SLICE_RETURNED
                   /\ InSpinReturn)
    /\ [][(prod.pc = "mk_load" /\ head_last = whl_invalid_offset_pair
             /\ ULe(prod.units, aligned_size))
            => (prod'.pc = "mk_load" \/ (prod'.pc = "mk_init" /\ prod'.offset = 0))]_vars

\* a request for the whole wheel has failed while the consumer holds the head
\* slice, after an earlier request for the whole wheel was made, shared and
\* received
C30_Witness ==
    /\ prod.pc = "mk_ret"
    /\ prod.ret = WHL_INVALID_OFFSET
    /\ prod.units = aligned_size
    /\ cons.pc = "got"
    /\ rx_total >= aligned_size * WHL_ALIGN - SLICE_SIZEOF

(***************************************************************************)
(* Properties of the eventfd variant.                                      *)
(***************************************************************************)
\* neither process is inside a wheel operation
BothIdle == prod.pc = "idle" /\ cons.pc = "idle"

ReadableAtHead ==
    /\ PairValid
    /\ mem[head_last.head].state = WHL_SLICE_READABLE

\* C6: once whl_efd_share_slice and a whl_efd_next_shared_slice that
\* returned WHL_INVALID_OFFSET have both completed, in whatever interleaving,
\* a READABLE slice at head means the readable eventfd polls readable.
C6_NoLostReadable ==
    BothIdle /\ ReadableAtHead => EfdPollIn(readable)

\* the producer's latest whl_efd_make_slice returned WHL_INVALID_OFFSET and
\* the consumer reclaimed a slice after the snapshot that call decided on
FailedThenReclaimed ==
    /\ prod.size # 0
    /\ prod.ret = WHL_INVALID_OFFSET
    /\ Reclaimed > prod.mark

\* C7: once a whl_efd_make_slice that returned WHL_INVALID_OFFSET and a
\* whl_efd_return_slice that reclaimed a slice after that failure was decided
\* have both completed, is_writable is 1 and the writable eventfd polls
\* writable.
C7_NoLostWritable ==
    BothIdle /\ FailedThenReclaimed =>
       is_writable = 1 /\ EfdPollOut(writable)

\* C8: between callbacks, while the sender still has a message to send or a
\* READABLE slice is in the wheel, the readable eventfd polls readable or the
\* writable eventfd polls writable.
C8_SomeoneIsWoken ==
    BothIdle /\ (loops > 0 \/ \E i \in 1 .. Len(chain) :
                                 mem[chain[i].off].state = WHL_SLICE_READABLE)
       => EfdPollIn(readable) \/ EfdPollOut(writable)

\* C13: between wheel operations is_readable is 1 exactly when the next
\* whl_efd_next_shared_slice would hand out a slice (head is valid and the
\* slice at head is READABLE).
C13_FlagIffPeekable == BothIdle => (is_readable = 1 <=> ReadableAtHead)

\* the consumer is inside whl_efd_return_slice
InReturn ==
    cons.pc \in {"rt_xchg", "rt_load", "rt_head", "rt_state", "rt_cas", "rt_units",
                 "rt_store", "rt_ret", "ert_read", "ert_ret"}

\* no slice was returned so far, and none is being returned
NoReturns == rx_log = <<>> /\ ~InReturn

\* the steps of the spin whl_make_slice inside whl_efd_make_slice
InSpinMake == prod.pc \in {"mk_load", "mk_backfill", "mk_init", "mk_publish", "mk_reload"}

\* C17: a whl_efd_make_slice that returns WHL_INVALID_OFFSET exchanges
\* is_writable to 0 and issues one write of 1 to the writable eventfd exactly
\* when the flag was 1 (the count goes up by one when the kernel takes the
\* write), and none when the flag was 0; a call that returns an offset changes
\* neither the flag nor the eventfd; no other step of the producer touches
\* them.  On the 256-byte buffer with no returns the first three 16-byte calls
\* succeed with the flag at 1, the fourth returns WHL_INVALID_OFFSET, and the
\* flag goes from 1 to 0 only in such a failing call.
C17_MakeHook ==
    /\ [][(prod.pc = "mk_ret" /\ prod'.pc # "mk_ret") =>
             /\ writable' = writable
             /\ IF prod.ret = WHL_INVALID_OFFSET
                THEN /\ is_writable' = 0
                     /\ prod'.pc = IF is_writable = 1 THEN "emk_write" ELSE "emk_ret"
                ELSE /\ is_writable' = is_writable
                     /\ prod'.pc = "emk_ret"]_vars
    /\ [][(prod.pc = "emk_write" /\ prod'.pc # "emk_write") =>
             /\ prod'.pc = "emk_ret"
             /\ prod'.ret = WHL_INVALID_OFFSET
             /\ is_writable' = is_writable
             /\ writable' = IF EfdWriteOk(writable, 1) THEN writable + 1
                            ELSE writable]_vars
    /\ [][(InSpinMake /\ prod' # prod) =>
             (is_writable' = is_writable /\ writable' = writable)]_vars
    /\ [][(is_writable = 1 /\ is_writable' = 0) =>
             (prod.pc = "mk_ret" /\ prod.ret = WHL_INVALID_OFFSET)]_vars
    /\ [][(writable' = writable + 1) => prod.pc = "emk_write"]_vars
    /\ [](NoReturns /\ prod.pc = "mk_ret" =>
             (prod.ret = WHL_INVALID_OFFSET <=> Len(pub_order) = aligned_size))
    /\ [](NoReturns /\ Len(pub_order) < aligned_size => is_writable = 1)

\* the fourth call has failed with no returns: the flag is 0 and the one write
\* has taken the eventfd to its largest count
C17_Witness ==
    /\ NoReturns
    /\ Len(pub_order) = 256 \div WHL_ALIGN - 1
    /\ prod.pc = "emk_ret"
    /\ prod.ret = WHL_INVALID_OFFSET
    /\ is_writable = 0
    /\ writable = whl_efd_init_writable(is_writable)

\* a step of the part of a whl_efd_* operation that follows the spin operation
HookStepProd ==
    prod.pc \in {"mk_ret", "emk_write", "esh_xchg", "esh_write"} /\ prod' # prod

HookStepCons ==
    cons.pc \in {"nx_ret", "enx_read", "rt_ret", "ert_read"} /\ cons' # cons

\* the step is an eventfd write or read that fails
ProdSyscallFails ==
    \/ prod.pc = "emk_write" /\ ~EfdWriteOk(writable, 1)
    \/ prod.pc = "esh_write" /\ ~EfdWriteOk(readable, 1)

ConsSyscallFails ==
    \/ cons.pc = "enx_read" /\ ~EfdReadOk(readable)
    \/ cons.pc = "ert_read" /\ ~EfdReadOk(writable)

\* C19: the eventfd layer refines the spin layer.  What a whl_efd_* operation
\* does after its spin operation changes neither head_last nor a slice
\* header nor what the spin operation returned (the offset or count, *bufp,
\* *size), whether its eventfd write or read succeeds or fails; when the
\* operation returns, errno is EAGAIN if that write or read failed and 0 if it
\* succeeded or was not attempted.
C19_EfdRefinesSpin ==
    /\ [][HookStepProd =>
             /\ <<aligned_size, head_last, mem>>' = <<aligned_size, head_last, mem>>
             /\ prod'.ret = prod.ret
             /\ prod'.bufp = prod.bufp]_vars
    /\ [][HookStepCons =>
             /\ <<aligned_size, head_last, mem>>' = <<aligned_size, head_last, mem>>
             /\ cons'.ret = cons.ret
             /\ cons'.held = cons.held]_vars
    /\ [][(HookStepProd /\ prod'.pc \in {"emk_ret", "esh_ret"}) =>
             errno'.prod = IF ProdSyscallFails THEN EAGAIN ELSE 0]_vars
    /\ [][(HookStepCons /\ cons'.pc \in {"enx_ret", "ert_ret"}) =>
             errno'.cons = IF ConsSyscallFails THEN EAGAIN ELSE 0]_vars
    /\ [][(errno' # errno) => (HookStepProd \/ HookStepCons)]_vars

\* whl_efd_make_slice has returned WHL_INVALID_OFFSET after a write that failed
C19_Witness ==
    /\ prod.pc = "emk_ret"
    /\ prod.ret = WHL_INVALID_OFFSET
    /\ errno.prod = EAGAIN
    /\ ~EfdPollOut(writable)

(***************************************************************************)
(* Properties of the handshake.                                            *)
(***************************************************************************)
\* the handles the message received carried
HandlesReceived(msg) ==
    IF msg.cmsg /\ msg.type = "SCM_RIGHTS" THEN Len(msg.fds) ELSE 0

\* the receive is over
Received == cons.pc \in {"hs_err", "hs_open", "hs_open_err", "hs_mapped"}

\* C20: the consumer side of the handshake fails whenever the receive fails
\* or the number of handles received is not the number expected: recv_fd
\* returns -1 when the receive failed, and the eventfd-variant receiver
\* never gets to open_shm after a failed receive or a handle count other
\* than 3.
C20_BadReceiveFails ==
    /\ (Received /\ cons.tport = "spin" /\ cons.msg.ret < 0) =>
          cons.ret = IntToSizeT(-1)
    /\ (Received /\ cons.tport = "libuv"
        /\ (cons.msg.ret < 0 \/ HandlesReceived(cons.msg) # 3)) =>
          cons.pc = "hs_err"

(***************************************************************************)
(* Properties of passing handles.                                          *)
(***************************************************************************)
\* C21: send_fds_with_data with more than 16 handles returns the error value
\* with errno E2BIG and sends no datagram; with at most 16 handles, unless
\* sendmsg itself fails, it sends exactly one datagram that carries all the
\* handles in order.
C21_SendCap ==
    prod.pc = "sent" =>
        IF Len(prod.fds) > 16
        THEN /\ prod.outcome = "return"
             /\ prod.ret = IntToSizeT(-1)
             /\ prod.errno = E2BIG
             /\ prod.dgram = <<>>
        ELSE prod.sendmsg_ok =>
                /\ prod.outcome = "return"
                /\ Len(prod.dgram) = 1
                /\ prod.dgram[1].fds = prod.fds

MinOf(a, b) == IF a < b THEN a ELSE b

\* C22: after a successful recv_fds_with_data with a maximum of k on a
\* message with n handles, the count is min(k, n), the first min(k, n)
\* handles are in outfds in order, the other n - min(k, n) are closed once
\* each, and the payload length is returned; without SCM_RIGHTS control data
\* the count is 0, nothing is closed and the payload length is returned.
C22_DeliveredOrClosed ==
    (cons.pc = "received" /\ cons.msg.ret >= 0) =>
        LET n == Len(cons.msg.fds)
            m == MinOf(cons.k, n)
        IN  /\ cons.r.ret = SizeT(cons.msg.ret)
            /\ IF cons.msg.cmsg /\ cons.msg.type = "SCM_RIGHTS"
               THEN /\ cons.r.n_outfds = m
                    /\ \A j \in 1 .. m : cons.r.outfds[j] = cons.msg.fds[j]
                    /\ \A j \in (m + 1) .. cons.k : cons.r.outfds[j] = cons.outfds[j]
                    /\ cons.r.closed = SubSeq(cons.msg.fds, m + 1, n)
                    /\ \A j \in 1 .. n :
                          Cardinality({i \in 1 .. m : cons.r.outfds[i] = cons.msg.fds[j]})
                          + Cardinality({i \in 1 .. Len(cons.r.closed) :
                                           cons.r.closed[i] = cons.msg.fds[j]}) = 1
               ELSE /\ cons.r.n_outfds = 0
                    /\ cons.r.closed = <<>>
                    /\ cons.r.outfds = cons.outfds

\* more handles arrived than asked for: some are delivered, some closed
C22_Witness ==
    /\ cons.pc = "received"
    /\ cons.msg.ret >= 0
    /\ cons.k = 2
    /\ Len(cons.msg.fds) = 4
    /\ cons.r.n_outfds = 2
    /\ Len(cons.r.closed) = 2

\* a write to or a read of the readable eventfd is still to come: W1 or R1
\* was done and W2 or R2 was not
ReadablePending == prod.pc = "esh_write" \/ cons.pc = "enx_read"

\* C26: the readable eventfd adds up the producer's writes and the
\* consumer's reads in any order: whenever no write or read of it is
\* pending, its counter equals is_readable, so that it polls readable
\* exactly when is_readable is 1.
C26_CounterIsFlag ==
    ~ReadablePending =>
        /\ readable = is_readable
        /\ EfdPollIn(readable) <=> is_readable = 1

\* the hook of whl_efd_return_slice takes a step
ReturnHookStep == cons.pc \in {"rt_ret", "ert_read"} /\ cons'.pc # cons.pc

\* C28: the hook of whl_efd_return_slice changes nothing when
\* whl_return_slice returned 0; when whl_return_slice reclaimed a slice it
\* sets is_writable to 1 and reads the writable eventfd exactly when
\* is_writable was 0.
C28_ReturnHook ==
    [][ ReturnHookStep =>
          IF cons.ret = 0
          THEN is_writable' = is_writable /\ writable' = writable
          ELSE /\ cons.pc = "rt_ret" =>
                     /\ is_writable' = 1
                     /\ writable' = writable
                     /\ cons'.pc = "ert_read" <=> is_writable = 0
               /\ cons.pc = "ert_read" =>
                     /\ is_writable' = is_writable
                     /\ writable' = __whl_efd_read(writable)
      ]_vars

(***************************************************************************)
(* Properties of the scripted run.                                         *)
(***************************************************************************)
\* whl_make_slice has just returned an offset for the 48-byte request, which
\* was made after the three 16-byte slices had been returned
FourthMade ==
    /\ prod.pc = "mk_ret"
    /\ prod.ret # WHL_INVALID_OFFSET
    /\ prod.size = WrapScript[Len(WrapScript)]
    /\ prod.mark = Len(WrapScript) - 1

\* C15 as stated: the 48-byte slice takes two quanta, is placed at offset 0 by
\* wrapping, and the slice that was last before it has been grown to the end
\* of the wheel.
C15_FourthWraps ==
    FourthMade =>
       /\ prod.ret = 0
       /\ Units(prod.ret) = 2
       /\ prod.pair.last # WHL_INVALID_OFFSET
       /\ Units(prod.pair.last) = aligned_size - prod.pair.last

\* C15 amended: the 48-byte slice takes one quantum (48 + 16 = 64) and is
\* placed at offset 0 of a wheel that the three returns had emptied: the pair
\* whl_make_slice loaded was invalid, so there is no wrap and no back-fill,
\* and the new slice is the only one in the chain.
C15_FourthInEmptyWheel ==
    FourthMade =>
       /\ prod.ret = 0
       /\ Units(prod.ret) = 1
       /\ prod.pair = whl_invalid_offset_pair
       /\ head_last = [head |-> 0, last |-> 0]
       /\ Len(chain) = 1

C15_Witness ==
    /\ FourthMade
    /\ Len(rx_log) = Len(WrapScript) - 1
    /\ rx_total = 16 + 16 + 16

(***************************************************************************)
(* Properties of the size arithmetic.                                      *)
(***************************************************************************)
\* ceil((size + sizeof(whl_slice_t)) / WHL_ALIGN) as a number, in quanta
\* digits [hi, lo] with hi unbounded
ExactUnits(size) ==
    LET k == IF size.r + SLICE_SIZEOF <= WHL_ALIGN THEN 1 ELSE 2
        lo1 == size.lo + k
    IN  [hi |-> size.hi + (lo1 \div LIMB), lo |-> lo1 % LIMB]

\* the whl_offset_t units holds exactly that number
HoldsExactUnits(size, units) ==
    /\ ExactUnits(size).hi < 4
    /\ Trunc32(ExactUnits(size)) = units

\* size <= units * WHL_ALIGN - sizeof(whl_slice_t), for units below LIMB
FitsUnits(size, units) ==
    /\ ExactUnits(size).hi = 0
    /\ ExactUnits(size).lo <= units

\* C11: whenever whl_make_slice returns an offset, the aligned_size_in_wheel
\* it stored is ceil((size + 16) / 64) as a number, and every slice handed out
\* by whl_next_shared_slice has trailing_user_size <= units * 64 - 16.
C11_UnitsCoverSize ==
    /\ prod.pc = "mk_ret" /\ prod.ret # WHL_INVALID_OFFSET =>
          HoldsExactUnits(mem[prod.ret].trailing_user_size,
                          mem[prod.ret].aligned_size_in_wheel)
    /\ cons.held # <<>> =>
          FitsUnits(cons.held.size, mem[cons.held.offset].aligned_size_in_wheel)

\* header plus payload, rounded up to WHL_ALIGN, exceeds the wheel
Oversize(size) ==
    \/ ExactUnits(size).hi > 0
    \/ ExactUnits(size).lo > aligned_size

\* C12: a request whose header plus payload, rounded up to WHL_ALIGN, exceeds
\* aligned_size * WHL_ALIGN is answered with WHL_INVALID_OFFSET in every
\* reachable state of the wheel.
C12_OversizeRefused ==
    prod.pc = "mk_ret" /\ Oversize(prod.size) => prod.ret = WHL_INVALID_OFFSET

\* the sizes the construction contract admits: a multiple of WHL_ALIGN, at
\* least 2 * WHL_ALIGN, below WHL_ALIGN * (2^32 - 1)
InitContract(buf_size) ==
    /\ buf_size.r = 0
    /\ ~SzLess(buf_size, SizeT(2 * WHL_ALIGN))
    /\ SzLess(buf_size, [hi |-> 3, lo |-> LIMB - 1, r |-> 0])

\* C14: whl_init returns 0 exactly for the sizes of the contract and non-zero
\* for every other size; on success aligned_size is buf_size / 64 - 1 and head
\* and last are both WHL_INVALID_OFFSET.
C14_InitContract ==
    prod.pc = "init_ret" =>
       /\ prod.ret = 0 <=> InitContract(prod.buf_size)
       /\ prod.ret = 0 =>
             /\ prod.buf_size.hi < 4
             /\ aligned_size = Trunc32(SzAdd(prod.buf_size, 0 - WHL_ALIGN))
             /\ head_last = whl_invalid_offset_pair

====
